---- MODULE Spec2Model ----
(***************************************************************************)
(* Verification model of clanflare/cf-email: the rate-limit-aware sender   *)
(* (fetchWithRateLimit / sendEmbedBatch), the content chunker, the embed   *)
(* batcher, the attachment uploads (handleAttachments), the text           *)
(* normalizer (extractTextFromHtml), the email handler with its delivery   *)
(* (sendEmbedMessage) and auto-reply (sendAutoReply), and the worker       *)
(* process with the module-level state its invocations share.              *)
(*                                                                         *)
(* Strings are modelled as sequences of one-character strings.             *)
(***************************************************************************)
EXTENDS Integers, Sequences, FiniteSets, TLC

(***************************************************************************)
(* Program constants                                                       *)
(***************************************************************************)
MAX_RETRIES == 3

DEFAULT_RETRY_AFTER_MS == 1000

(***************************************************************************)
(* Bounds of the model                                                     *)
(***************************************************************************)
\* longest Retry-After header value the destination sends
MaxHeaderLen == 3

VARIABLES
    pc,            \* position of the running sendEmbedBatch / fetchWithRateLimit
    response,      \* `response` of fetchWithRateLimit (last response received)
    retries,       \* `retries` of fetchWithRateLimit
    statuses,      \* history: statuses of the responses received, in order
    waits,         \* history: number of completed/started sleeps
    retryAfterMs,  \* `retryAfterMs` of the current/last sleep
    result,        \* outcome of sendEmbedBatch
    chunker,       \* which revision's chunking loop runs
    text,          \* the body text handed to the chunker (emailTextContent)
    maxLength,     \* MAX_DESCRIPTION_LENGTH of the run
    content,       \* `content` / `remainingContent`: text not yet emitted
    blocks,        \* descriptions of the body embeds pushed so far, in order
    prefix,        \* history: the prefix taken by the last iteration
    merged,        \* history: the last iteration applied the merge rule
    chunkPc,       \* position of the chunking loop
    impl,          \* which revision's batcher runs
    embeds,        \* the display units handed to sendEmbedsWithBatching
    idx,           \* loop position: next embed (index.js) or batch (part_001)
    currentBatch,  \* `currentBatch` of sendEmbedsWithBatching
    currentTotalSize, \* `currentTotalSize` of sendEmbedsWithBatching
    batches,       \* `batches` returned by splitEmbedsIntoBatches
    posted,        \* history: the batches handed to sendEmbedBatch, in order
    messages,      \* `messages`: the batches whose send returned, in order
    batchPc,       \* position of sendEmbedsWithBatching
    calls,         \* history: the outbound requests started, in order
    returns,       \* history: the outcomes of the requests that ended, in order
    tries,         \* fetches issued so far by the request in flight
    attachments,   \* `attachments` handed to handleAttachments
    upBatches,     \* `batches` of handleAttachments
    upIdx,         \* loop position of handleAttachments: next batch to upload
    attachmentLinks, \* `attachmentLinks` of handleAttachments / the email handler
    links,         \* history: the lists returned by uploadAttachmentsToChannel
    upPc,          \* position of handleAttachments
    rev,           \* which revision's email handler runs
    env,           \* the environment of the invocation
    parsedEmail,   \* `parsedEmail` of the email handler
    hPc,           \* position of the email handler
    targetChannelId, \* `targetChannelId` of the email handler
    member,        \* `member` of the email handler: what findDiscordMember returned
    emailTextContent, \* `emailTextContent` of sendEmbedMessage
    error,         \* `error.message` caught by the email handler
    replies,       \* history: the invocations of sendAutoReply
    mails,         \* history: the calls of event.reply / event.send
    htmlContent,   \* `htmlContent` handed to extractTextFromHtml
    extracted,     \* what extractTextFromHtml returned or threw
    normPc,        \* position of the extractTextFromHtml run
    wEnv,          \* the environment the worker is deployed with
    wPc,           \* position of each invocation of the email handler
    wRetries,      \* `retries` of each invocation's call of fetchWithRateLimit
    myHeaders,     \* module level: the Authorization values of `myHeaders`
    LOG_CHANNEL_ID, \* module level: `LOG_CHANNEL_ID` is set
    logEntries,    \* module level: `Logger.logEntries`
    flushes,       \* history: the entries each invocation's sendLogEmbeds sends
    overlap        \* history: two invocations were in progress at once

sendVars == <<pc, response, retries, statuses, waits, retryAfterMs, result>>

chunkVars == <<chunker, text, maxLength, content, blocks, prefix, merged, chunkPc>>

batchVars == <<impl, embeds, idx, currentBatch, currentTotalSize, batches, posted, messages, batchPc>>

wireVars == <<calls, returns, tries>>

uploadVars == <<attachments, upBatches, upIdx, attachmentLinks, links, upPc>>

emailVars == <<rev, env, parsedEmail, hPc, targetChannelId, member, emailTextContent,
               error, replies, mails>>

normVars == <<htmlContent, extracted, normPc>>

workerVars == <<wEnv, wPc, wRetries, myHeaders, LOG_CHANNEL_ID, logEntries,
                flushes, overlap>>

handlerVars == <<wireVars, uploadVars, emailVars, normVars, workerVars>>

vars == <<sendVars, chunkVars, batchVars, handlerVars>>

(***************************************************************************)
(* Generic helpers                                                         *)
(***************************************************************************)
Last(s) == s[Len(s)]

\* all sequences over S of length 0..n
SeqsUpTo(S, n) == UNION {[1..k -> S] : k \in 0..n}

Pow10(n) == IF n = 0 THEN 1 ELSE IF n = 1 THEN 10 ELSE IF n = 2 THEN 100
            ELSE IF n = 3 THEN 1000 ELSE IF n = 4 THEN 10000 ELSE 100000

(***************************************************************************)
(* The destination's responses                                             *)
(***************************************************************************)
Statuses == {200, 201, 400, 429, 500}

\* response.text() of a response that is not ok
Bodies == {"", "{\"message\":\"error\"}"}

\* the body of a 2xx response: the JSON of the message created
MessageJson == "{\"id\":\"1\"}"

\* characters of a Retry-After value: digits, the decimal point, a letter
HeaderChars == {"0", "2", ".", "x"}

HeaderDigits == {"0", "2"}

DigitVal(c) == IF c = "2" THEN 2 ELSE 0

\* headers.get("Retry-After"): null when the header is absent, else its value
NoHeader == [present |-> FALSE, value |-> <<>>]

RetryAfterHeaders ==
    {NoHeader} \cup {[present |-> TRUE, value |-> v] : v \in SeqsUpTo(HeaderChars, MaxHeaderLen)}

NoResponse == [status |-> 0, retryAfter |-> NoHeader, body |-> ""]

\* the header is read only from a 429 response; other responses carry none
Responses ==
    {[status |-> 429, retryAfter |-> h, body |-> b] : h \in RetryAfterHeaders, b \in Bodies}
    \cup {[status |-> s, retryAfter |-> NoHeader, body |-> b] :
            s \in {st \in Statuses : st # 429 /\ st \notin 200..299}, b \in Bodies}
    \cup {[status |-> s, retryAfter |-> NoHeader, body |-> MessageJson] :
            s \in {st \in Statuses : st \in 200..299}}

(***************************************************************************)
(* parseFloat(retryAfter) * 1000                                           *)
(*                                                                         *)
(* A number is a record [nan, ms]; nan = TRUE is NaN.  parseFloat reads    *)
(* the longest prefix that is a decimal literal (digits, optionally a      *)
(* point and digits; at least one digit) and ignores what follows; NaN     *)
(* when there is no such prefix.  The value is kept in thousandths, so     *)
(* that the product with 1000 is an integer (a remainder below 1 ms is     *)
(* dropped, as setTimeout does with its delay).                            *)
(***************************************************************************)
NaN == [nan |-> TRUE, ms |-> 0]

Num(n) == [nan |-> FALSE, ms |-> n]

RECURSIVE DigitPrefixLen(_)
DigitPrefixLen(s) ==
    IF s = <<>> \/ Head(s) \notin HeaderDigits THEN 0 ELSE 1 + DigitPrefixLen(Tail(s))

RECURSIVE DigitsValue(_)
DigitsValue(s) ==
    IF s = <<>> THEN 0 ELSE 10 * DigitsValue(SubSeq(s, 1, Len(s) - 1)) + DigitVal(Last(s))

parseFloatTimes1000(s) ==
    LET i == DigitPrefixLen(s)
        rest == SubSeq(s, i + 1, Len(s))
        f == IF rest # <<>> /\ Head(rest) = "." THEN DigitPrefixLen(Tail(rest)) ELSE 0
        intDigits == SubSeq(s, 1, i)
        fracDigits == SubSeq(s, i + 2, i + 1 + f)
    IN  IF i + f = 0 THEN NaN
        ELSE Num(DigitsValue(intDigits) * 1000 + (DigitsValue(fracDigits) * 1000) \div Pow10(f))

\* JavaScript truthiness of headers.get(...): null and "" are falsy
Truthy(h) == h.present /\ h.value # <<>>

\* const retryAfterMs = retryAfter ? parseFloat(retryAfter) * 1000 : DEFAULT_RETRY_AFTER_MS
RetryAfterMs(h) ==
    IF Truthy(h) THEN parseFloatTimes1000(h.value) ELSE Num(DEFAULT_RETRY_AFTER_MS)

(***************************************************************************)
(* fetchWithRateLimit and sendEmbedBatch                                   *)
(***************************************************************************)
\* while (response.status === 429 && retries > 0)
ShouldRetry_Mut(status, r) == status = 429 /\ r >= 0

ShouldRetry_AnyFailure(status, r) == status \notin 200..299 /\ r > 0

ShouldRetry(status, r) == status = 429 /\ r > 0

\* response.ok
ResponseOk_Only200(status) == status = 200

ResponseOk(status) == status \in 200..299

NoResult == [kind |-> "none", status |-> 0, body |-> ""]

\* throw new Error("Rate limit exceeded, maximum retries reached.")
RateLimitExceeded == [kind |-> "RateLimitExceeded", status |-> 0, body |-> ""]

\* throw new Error(`Failed to send message. Status: ${response.status}. Error: ${errorText}`)
HttpError(r) == [kind |-> "HttpError", status |-> r.status, body |-> r.body]

\* return await response.json()
Sent == [kind |-> "ok", status |-> 0, body |-> ""]

IdleSend ==
    /\ pc = "idle"
    /\ response = NoResponse
    /\ retries = MAX_RETRIES
    /\ statuses = <<>>
    /\ waits = 0
    /\ retryAfterMs = Num(0)
    /\ result = NoResult

InitSend ==
    /\ pc = "start"
    /\ response = NoResponse
    /\ retries = MAX_RETRIES
    /\ statuses = <<>>
    /\ waits = 0
    /\ retryAfterMs = Num(0)
    /\ result = NoResult

\* let response = await fetch(url, options)
Fetch(r) ==
    /\ pc = "start"
    /\ response' = r
    /\ statuses' = Append(statuses, r.status)
    /\ pc' = "check"
    /\ UNCHANGED <<retries, waits, retryAfterMs, result>>
    /\ UNCHANGED <<chunkVars, batchVars, handlerVars>>

\* the loop condition holds: read Retry-After and start the sleep
Wait ==
    /\ pc = "check"
    /\ ShouldRetry(response.status, retries)
    /\ retryAfterMs' = RetryAfterMs(response.retryAfter)
    /\ waits' = waits + 1
    /\ pc' = "sleeping"
    /\ UNCHANGED <<response, retries, statuses, result>>
    /\ UNCHANGED <<chunkVars, batchVars, handlerVars>>

\* the sleep is over: response = await fetch(url, options); retries--
Refetch(r) ==
    /\ pc = "sleeping"
    /\ response' = r
    /\ statuses' = Append(statuses, r.status)
    /\ retries' = retries - 1
    /\ pc' = "check"
    /\ UNCHANGED <<waits, retryAfterMs, result>>
    /\ UNCHANGED <<chunkVars, batchVars, handlerVars>>

\* the loop condition fails: fetchWithRateLimit throws or returns, and
\* sendEmbedBatch throws on a response that is not ok
Finish ==
    /\ pc = "check"
    /\ ~ShouldRetry(response.status, retries)
    /\ result' = IF response.status = 429 THEN RateLimitExceeded
                 ELSE IF ~ResponseOk(response.status) THEN HttpError(response)
                 ELSE Sent
    /\ pc' = "done"
    /\ UNCHANGED <<response, retries, statuses, waits, retryAfterMs>>
    /\ UNCHANGED <<chunkVars, batchVars, handlerVars>>

NextSend ==
    \/ \E r \in Responses : Fetch(r)
    \/ Wait
    \/ \E r \in Responses : Refetch(r)
    \/ Finish

(***************************************************************************)
(* ContentChunker: the chunking loop of sendEmbedMessage (index.js, no     *)
(* merge rule; part_003, merge rule) and of splitContentIntoEmbeds         *)
(* (part_001, merge rule)                                                  *)
(***************************************************************************)
Whitespace == {" ", "\n"}

\* String.prototype.substring(from, to) with 0-based positions
substring(s, from, to) ==
    SubSeq(s, from + 1, IF to < Len(s) THEN to ELSE Len(s))

\* String.prototype.lastIndexOf(c): 0-based position of the last c, or -1
lastIndexOf_First(s, c) ==
    LET I == {i \in 1..Len(s) : s[i] = c}
    IN  IF I = {} THEN -1 ELSE (CHOOSE i \in I : \A j \in I : j >= i) - 1

lastIndexOf(s, c) ==
    LET I == {i \in 1..Len(s) : s[i] = c}
    IN  IF I = {} THEN -1 ELSE (CHOOSE i \in I : \A j \in I : j <= i) - 1

\* String.prototype.trim(): strips leading and trailing whitespace
trim(s) ==
    LET I == {i \in 1..Len(s) : s[i] \notin Whitespace}
    IN  IF I = {} THEN <<>>
        ELSE SubSeq(s, CHOOSE i \in I : \A j \in I : j >= i,
                       CHOOSE i \in I : \A j \in I : j <= i)

\* lastSpaceIndex > -1 && lastSpaceIndex > chunk.length * 0.8
InTail_Any(lastSpaceIndex, len) == lastSpaceIndex > -1

InTail(lastSpaceIndex, len) ==
    lastSpaceIndex > -1 /\ 5 * lastSpaceIndex > 4 * len

\* let chunk = content.substring(0, MAX); cut back to the last space when
\* it lies in the tail of the prefix
CutChunk(p) ==
    LET lastSpaceIndex == lastIndexOf(p, " ")
    IN  IF InTail(lastSpaceIndex, Len(p)) THEN substring(p, 0, lastSpaceIndex) ELSE p

\* content.substring(chunk.length).trim()
Remaining_SkipOne(c, chunk) == trim(substring(c, Len(chunk) + 1, Len(c)))

Remaining(c, chunk) == trim(substring(c, Len(chunk), Len(c)))

\* the merge thresholds of the revisions; index.js has no merge rule
MIN_CHUNK_MERGE_THRESHOLD == 100

SMALL_CONTENT_THRESHOLD == 500

Chunkers == {"index.js", "part_001", "part_003"}

HasMergeRule(c) == c \in {"part_001", "part_003"}

MergeThreshold(c) == IF c = "part_001" THEN MIN_CHUNK_MERGE_THRESHOLD ELSE SMALL_CONTENT_THRESHOLD

\* nextChunk.length > 0 && nextChunk.length < THRESHOLD &&
\* chunk.length + nextChunk.length <= MAX
ShouldMerge_Reversed(chunk, nextChunk, threshold, max) ==
    /\ Len(nextChunk) > 0
    /\ Len(nextChunk) > threshold
    /\ Len(chunk) + Len(nextChunk) <= max

ShouldMerge(chunk, nextChunk, threshold, max) ==
    /\ Len(nextChunk) > 0
    /\ Len(nextChunk) < threshold
    /\ Len(chunk) + Len(nextChunk) <= max

\* chunk += ' ' + nextChunk
Merge(chunk, nextChunk) == chunk \o <<" ">> \o nextChunk

\* the whole loop of index.js as a function of the text: the blocks pushed
RECURSIVE ChunksOf(_, _)
ChunksOf(c, max) ==
    IF Len(c) = 0 THEN <<>>
    ELSE LET chunk == CutChunk(substring(c, 0, max))
         IN  <<chunk>> \o ChunksOf(Remaining(c, chunk), max)

IdleChunk ==
    /\ chunker = "index.js"
    /\ text = <<>>
    /\ maxLength = 1
    /\ content = <<>>
    /\ blocks = <<>>
    /\ prefix = <<>>
    /\ merged = FALSE
    /\ chunkPc = "idle"

\* one iteration of `while (content.length > 0)` in index.js
ChunkStep ==
    /\ chunkPc = "loop"
    /\ ~HasMergeRule(chunker)
    /\ Len(content) > 0
    /\ LET p == substring(content, 0, maxLength)
           chunk == CutChunk(p)
       IN  /\ prefix' = p
           /\ blocks' = Append(blocks, chunk)
           /\ content' = Remaining(content, chunk)
    /\ UNCHANGED <<chunker, text, maxLength, merged, chunkPc>>
    /\ UNCHANGED <<sendVars, batchVars, handlerVars>>

\* one iteration of the loop in part_001 / part_003: the merge rule
ChunkStepMerge ==
    /\ chunkPc = "loop"
    /\ HasMergeRule(chunker)
    /\ Len(content) > 0
    /\ LET p == substring(content, 0, maxLength)
           chunk == CutChunk(p)
           nextChunk == Remaining(content, chunk)
           merge == ShouldMerge(chunk, nextChunk, MergeThreshold(chunker), maxLength)
       IN  /\ prefix' = p
           /\ merged' = merge
           /\ blocks' = Append(blocks, IF merge THEN Merge(chunk, nextChunk) ELSE chunk)
           /\ content' = IF merge THEN <<>> ELSE nextChunk
    /\ UNCHANGED <<chunker, text, maxLength, chunkPc>>
    /\ UNCHANGED <<sendVars, batchVars, handlerVars>>

\* the loop condition fails
ChunkDone ==
    /\ chunkPc = "loop"
    /\ Len(content) = 0
    /\ chunkPc' = "done"
    /\ UNCHANGED <<chunker, text, maxLength, content, blocks, prefix, merged>>
    /\ UNCHANGED <<sendVars, batchVars, handlerVars>>

\* the body texts of the runs: every text of up to MaxTextLen characters,
\* and long texts made of a long word, whitespace and a short tail
TextChars == {"a", " ", "\n"}

WordChars == {"a", "b", " "}

MaxTextLen == 7

MaxChunkLen == 6

LongChunkLen == 61

Rep(c, n) == [i \in 1..n |-> c]

LongTexts ==
    {Rep("a", n) \o <<" ">> \o ws \o Rep("b", m) \o tail :
        n \in (LongChunkLen - 12)..(LongChunkLen - 10),
        ws \in SeqsUpTo({"\n"}, 2),
        m \in 8..9,
        tail \in SeqsUpTo({" ", "c"}, 2)}

ChunkInputs ==
    {<<t, m>> : t \in SeqsUpTo(TextChars, MaxTextLen), m \in 1..MaxChunkLen}
    \cup {<<t, m>> : t \in SeqsUpTo(WordChars, MaxTextLen - 2), m \in 1..MaxChunkLen}
    \cup {<<t, LongChunkLen>> : t \in LongTexts}

InitChunk ==
    /\ chunker \in Chunkers
    /\ \E inp \in ChunkInputs : text = inp[1] /\ maxLength = inp[2]
    /\ content = text
    /\ blocks = <<>>
    /\ prefix = <<>>
    /\ merged = FALSE
    /\ chunkPc = "loop"

NextChunk ==
    \/ ChunkStep
    \/ ChunkStepMerge
    \/ ChunkDone

(***************************************************************************)
(* BlockBatcher: sendEmbedsWithBatching of index.js (sends each batch as   *)
(* it closes it) and splitEmbedsIntoBatches of part_001 followed by the    *)
(* send loop of DiscordAPI.sendEmbedsWithBatching                          *)
(*                                                                         *)
(* An embed is a record [id, size]: its position in the input and          *)
(* JSON.stringify(embed).length.  A send either returns or throws.         *)
(***************************************************************************)
MAX_EMBEDS_PER_MESSAGE == 10

MAX_TOTAL_EMBED_SIZE == 6000

RECURSIVE TotalSize(_)
TotalSize(batch) == IF batch = <<>> THEN 0 ELSE Head(batch).size + TotalSize(Tail(batch))

\* currentTotalSize + embedSize > MAX_TOTAL_EMBED_SIZE ||
\* currentBatch.length >= MAX_EMBEDS_PER_MESSAGE
MustClose_NonStrict(currentTotal, embedSize, count) ==
    \/ currentTotal + embedSize >= MAX_TOTAL_EMBED_SIZE
    \/ count >= MAX_EMBEDS_PER_MESSAGE

MustClose(currentTotal, embedSize, count) ==
    \/ currentTotal + embedSize > MAX_TOTAL_EMBED_SIZE
    \/ count >= MAX_EMBEDS_PER_MESSAGE

\* currentBatch.push(embed)
Push_Front(batch, embed) == <<embed>> \o batch

Push(batch, embed) == Append(batch, embed)

\* the loop of splitEmbedsIntoBatches from embed i on
RECURSIVE SplitLoop(_, _, _, _, _)
SplitLoop(es, i, done, cur, total) ==
    IF i > Len(es) THEN (IF Len(cur) > 0 THEN Append(done, cur) ELSE done)
    ELSE IF MustClose(total, es[i].size, Len(cur))
         THEN SplitLoop(es, i + 1, Append(done, cur), Push(<<>>, es[i]), es[i].size)
         ELSE SplitLoop(es, i + 1, done, Push(cur, es[i]), total + es[i].size)

splitEmbedsIntoBatches_FromSecond(es) == SplitLoop(es, 2, <<>>, <<>>, 0)

splitEmbedsIntoBatches(es) == SplitLoop(es, 1, <<>>, <<>>, 0)

Impls == {"index.js", "part_001"}

IdleBatch ==
    /\ impl = "index.js"
    /\ embeds = <<>>
    /\ idx = 1
    /\ currentBatch = <<>>
    /\ currentTotalSize = 0
    /\ batches = <<>>
    /\ posted = <<>>
    /\ messages = <<>>
    /\ batchPc = "idle"

\* index.js: the embed fits; add it to the current batch
AddEmbed ==
    /\ batchPc = "loop"
    /\ impl = "index.js"
    /\ idx <= Len(embeds)
    /\ ~MustClose(currentTotalSize, embeds[idx].size, Len(currentBatch))
    /\ currentBatch' = Push(currentBatch, embeds[idx])
    /\ currentTotalSize' = currentTotalSize + embeds[idx].size
    /\ idx' = idx + 1
    /\ UNCHANGED <<impl, embeds, batches, posted, messages, batchPc>>
    /\ UNCHANGED <<sendVars, chunkVars, handlerVars>>

\* index.js: the embed does not fit; send the current batch, reset it and
\* add the embed
SendAndAddEmbed ==
    /\ batchPc = "loop"
    /\ impl = "index.js"
    /\ idx <= Len(embeds)
    /\ MustClose(currentTotalSize, embeds[idx].size, Len(currentBatch))
    /\ posted' = Append(posted, currentBatch)
    /\ messages' = Append(messages, currentBatch)
    /\ currentBatch' = Push(<<>>, embeds[idx])
    /\ currentTotalSize' = embeds[idx].size
    /\ idx' = idx + 1
    /\ UNCHANGED <<impl, embeds, batches, batchPc>>
    /\ UNCHANGED <<sendVars, chunkVars, handlerVars>>

\* index.js: sendEmbedBatch throws; sendEmbedsWithBatching propagates it
SendThrows ==
    /\ batchPc = "loop"
    /\ impl = "index.js"
    /\ \/ idx <= Len(embeds) /\ MustClose(currentTotalSize, embeds[idx].size, Len(currentBatch))
       \/ idx > Len(embeds) /\ Len(currentBatch) > 0
    /\ posted' = Append(posted, currentBatch)
    /\ batchPc' = "failed"
    /\ UNCHANGED <<impl, embeds, idx, currentBatch, currentTotalSize, batches, messages>>
    /\ UNCHANGED <<sendVars, chunkVars, handlerVars>>

\* index.js: after the loop, send any remaining embeds and return
FlushBatch ==
    /\ batchPc = "loop"
    /\ impl = "index.js"
    /\ idx > Len(embeds)
    /\ IF Len(currentBatch) > 0
       THEN /\ posted' = Append(posted, currentBatch)
            /\ messages' = Append(messages, currentBatch)
       ELSE UNCHANGED <<posted, messages>>
    /\ batchPc' = "done"
    /\ UNCHANGED <<impl, embeds, idx, currentBatch, currentTotalSize, batches>>
    /\ UNCHANGED <<sendVars, chunkVars, handlerVars>>

\* part_001: const batches = DiscordUtils.splitEmbedsIntoBatches(embeds)
Split ==
    /\ batchPc = "loop"
    /\ impl = "part_001"
    /\ batches' = splitEmbedsIntoBatches(embeds)
    /\ idx' = 1
    /\ batchPc' = "sending"
    /\ UNCHANGED <<impl, embeds, currentBatch, currentTotalSize, posted, messages>>
    /\ UNCHANGED <<sendVars, chunkVars, handlerVars>>

\* part_001: await this.sendEmbedBatch(channelId, payload, attach) returns
SendBatch ==
    /\ batchPc = "sending"
    /\ idx <= Len(batches)
    /\ posted' = Append(posted, batches[idx])
    /\ messages' = Append(messages, batches[idx])
    /\ idx' = idx + 1
    /\ UNCHANGED <<impl, embeds, currentBatch, currentTotalSize, batches, batchPc>>
    /\ UNCHANGED <<sendVars, chunkVars, handlerVars>>

\* part_001: sendEmbedBatch throws
SendBatchThrows ==
    /\ batchPc = "sending"
    /\ idx <= Len(batches)
    /\ posted' = Append(posted, batches[idx])
    /\ batchPc' = "failed"
    /\ UNCHANGED <<impl, embeds, idx, currentBatch, currentTotalSize, batches, messages>>
    /\ UNCHANGED <<sendVars, chunkVars, handlerVars>>

\* part_001: every batch is sent; return batches
AllSent ==
    /\ batchPc = "sending"
    /\ idx > Len(batches)
    /\ batchPc' = "done"
    /\ UNCHANGED <<impl, embeds, idx, currentBatch, currentTotalSize, batches, posted, messages>>
    /\ UNCHANGED <<sendVars, chunkVars, handlerVars>>

\* the inputs: every sequence of up to MaxShortUnits embeds of a small, a
\* half-limit or an oversized serialized size, and sequences of up to
\* MaxUnits small embeds with one embed of any of the sizes among them, or
\* with two half-limit embeds before them
MaxShortUnits == 4

MaxUnits == 12

SmallSize == 20

UnitSizes == {SmallSize, MAX_TOTAL_EMBED_SIZE \div 2, MAX_TOTAL_EMBED_SIZE + 1}

SizeSeqs ==
    SeqsUpTo(UnitSizes, MaxShortUnits)
    \cup {[i \in 1..n |-> IF i = k THEN s ELSE SmallSize] :
            n \in 0..MaxUnits, k \in 1..MaxUnits, s \in UnitSizes}
    \cup {[i \in 1..(n + 2) |-> IF i <= 2 THEN MAX_TOTAL_EMBED_SIZE \div 2 ELSE SmallSize] :
            n \in 0..MaxUnits}

EmbedsOf(sizes) == [i \in 1..Len(sizes) |-> [id |-> i, size |-> sizes[i]]]

InitBatch ==
    /\ impl \in Impls
    /\ \E sizes \in SizeSeqs : embeds = EmbedsOf(sizes)
    /\ idx = 1
    /\ currentBatch = <<>>
    /\ currentTotalSize = 0
    /\ batches = <<>>
    /\ posted = <<>>
    /\ messages = <<>>
    /\ batchPc = "loop"

NextBatch ==
    \/ AddEmbed
    \/ SendAndAddEmbed
    \/ SendThrows
    \/ FlushBatch
    \/ Split
    \/ SendBatch
    \/ SendBatchThrows
    \/ AllSent

(***************************************************************************)
(* Outbound requests of the email handler.  Every request goes through     *)
(* fetchWithRateLimit: it is started, is throttled (429, wait, fetch       *)
(* again) while the retry budget lasts, and ends with an outcome.          *)
(***************************************************************************)
Request(kind, payload, file) == [kind |-> kind, payload |-> payload, file |-> file]

\* the request started last has not ended yet
InFlight == Len(calls) > Len(returns)

\* how a request that has issued t fetches can end: response.ok, a status
\* that is neither ok nor 429, or a 429 with no retry left
Outcomes(t) ==
    {"ok", "HttpError"} \cup (IF t = MAX_RETRIES + 1 THEN {"RateLimitExceeded"} ELSE {})

IdleWire ==
    /\ calls = <<>>
    /\ returns = <<>>
    /\ tries = 0

\* while (response.status === 429 && retries > 0), for a request that has
\* issued t fetches: retries is MAX_RETRIES - (t - 1)
RetriesLeft_Always(t) == TRUE

RetriesLeft(t) == MAX_RETRIES - (t - 1) > 0

\* the request in flight receives a 429 with a retry left: it sleeps and
\* fetches again
Throttled ==
    /\ InFlight
    /\ RetriesLeft(tries)
    /\ tries' = tries + 1
    /\ UNCHANGED <<calls, returns>>
    /\ UNCHANGED <<workerVars, sendVars, chunkVars, batchVars, uploadVars, emailVars, normVars>>

(***************************************************************************)
(* handleAttachments and uploadAttachmentsToChannel                        *)
(*                                                                         *)
(* An attachment is its position in parsedEmail.attachments; a hosted URL  *)
(* is a record [att, len]: the attachment it serves and its length.        *)
(***************************************************************************)
BATCH_SIZE == 10

\* Array.prototype.slice(from, to) with 0-based positions
slice_Inclusive(s, from, to) ==
    SubSeq(s, from + 1, IF to + 1 < Len(s) THEN to + 1 ELSE Len(s))

slice(s, from, to) ==
    SubSeq(s, from + 1, IF to < Len(s) THEN to ELSE Len(s))

\* for (let i = 0; i < attachments.length; i += BATCH_SIZE)
\*   batches.push(attachments.slice(i, i + BATCH_SIZE))
RECURSIVE Windows(_, _)
Windows(atts, i) ==
    IF i < Len(atts)
    THEN <<slice(atts, i, i + BATCH_SIZE)>> \o Windows(atts, i + BATCH_SIZE)
    ELSE <<>>

\* lengths of the URLs the destination hands out
ShortUrl == 100

LongUrl == 2030

UrlLens == {ShortUrl, LongUrl}

Url(a, len) == [att |-> a, len |-> len]

Reverse(s) == [i \in 1..Len(s) |-> s[Len(s) + 1 - i]]

\* messageData.attachments.map((attachment) => attachment.url) for the
\* message a successful upload of the batch returns: no attachments at
\* all, or one URL per file in the order of the files or in another order
UrlLists(batch) ==
    {<<>>}
    \cup {[i \in 1..Len(batch) |-> Url(batch[i], l)] : l \in UrlLens}
    \cup {Reverse([i \in 1..Len(batch) |-> Url(batch[i], ShortUrl)])}

\* attachmentLinks.push(...links) when links is not empty
PushLinks_Front(all, ls) == IF Len(ls) > 0 THEN ls \o all ELSE all

PushLinks(all, ls) == IF Len(ls) > 0 THEN all \o ls ELSE all

IdleUpload ==
    /\ attachments = <<>>
    /\ upBatches = <<>>
    /\ upIdx = 1
    /\ attachmentLinks = <<>>
    /\ links = <<>>
    /\ upPc = "idle"

\* the first loop of handleAttachments
BatchAttachments ==
    /\ upPc = "start"
    /\ upBatches' = Windows(attachments, 0)
    /\ upIdx' = 1
    /\ attachmentLinks' = <<>>
    /\ upPc' = "loop"
    /\ UNCHANGED <<attachments, links>>
    /\ UNCHANGED <<workerVars, sendVars, chunkVars, batchVars, wireVars, emailVars, normVars>>

\* const links = await uploadAttachmentsToChannel(ATTACHMENTS_CHANNEL, batch):
\* the request is started
BeginUpload ==
    /\ upPc = "loop"
    /\ upIdx <= Len(upBatches)
    /\ ~InFlight
    /\ calls' = Append(calls, Request("upload", upBatches[upIdx], FALSE))
    /\ tries' = 1
    /\ upPc' = "uploading"
    /\ UNCHANGED <<returns, attachments, upBatches, upIdx, attachmentLinks, links>>
    /\ UNCHANGED <<workerVars, sendVars, chunkVars, batchVars, emailVars, normVars>>

\* what uploadAttachmentsToChannel returns: the URLs of the message, or []
\* from the catch block when the request threw or the response was not ok
Uploaded_Uncaught(o, urls) == urls

Uploaded(o, urls) == IF o = "ok" THEN urls ELSE <<>>

\* uploadAttachmentsToChannel returns; handleAttachments appends the links
\* (urls: the URLs of the files the destination has stored)
EndUpload(o, urls) ==
    /\ upPc = "uploading"
    /\ o \in Outcomes(tries)
    /\ urls \in UrlLists(upBatches[upIdx])
    /\ returns' = Append(returns, o)
    /\ links' = Append(links, Uploaded(o, urls))
    /\ attachmentLinks' = PushLinks(attachmentLinks, Uploaded(o, urls))
    /\ upIdx' = upIdx + 1
    /\ upPc' = "loop"
    /\ UNCHANGED <<calls, tries, attachments, upBatches>>
    /\ UNCHANGED <<workerVars, sendVars, chunkVars, batchVars, emailVars, normVars>>

\* return attachmentLinks
UploadsDone ==
    /\ upPc = "loop"
    /\ upIdx > Len(upBatches)
    /\ upPc' = "done"
    /\ UNCHANGED <<attachments, upBatches, upIdx, attachmentLinks, links>>
    /\ UNCHANGED <<workerVars, sendVars, chunkVars, batchVars, wireVars, emailVars, normVars>>

\* the most attachments an email carries
MaxAttachments == 23

AttachmentsOf(n) == [i \in 1..n |-> i]

InitUpload ==
    /\ \E n \in 0..MaxAttachments : attachments = AttachmentsOf(n)
    /\ upBatches = <<>>
    /\ upIdx = 1
    /\ attachmentLinks = <<>>
    /\ links = <<>>
    /\ upPc = "start"

\* what the destination can answer to the upload in flight
UploadReplies == IF upPc = "uploading" THEN UrlLists(upBatches[upIdx]) ELSE {}

NextUpload ==
    \/ BatchAttachments
    \/ BeginUpload
    \/ Throttled
    \/ \E o \in Outcomes(MAX_RETRIES + 1), urls \in UploadReplies : EndUpload(o, urls)
    \/ UploadsDone

(***************************************************************************)
(* extractTextFromHtml and decodeHtmlEntities                              *)
(*                                                                         *)
(* A JavaScript value is a record: undefined, null, a number, or a string  *)
(* holding its characters.                                                 *)
(***************************************************************************)
Undefined == [t |-> "undefined", s |-> <<>>]

Null == [t |-> "null", s |-> <<>>]

NumberValue == [t |-> "number", s |-> <<>>]

Str(s) == [t |-> "string", s |-> s]

\* the value is falsy: undefined, null or the empty string (the number is
\* not zero)
Falsy(v) == v.t \in {"undefined", "null"} \/ (v.t = "string" /\ v.s = <<>>)

\* a || b
Or(a, b) == IF Falsy(a) THEN b ELSE a

\* "(Error extracting text content)"
ErrorExtracting ==
    <<"(", "E", "r", "r", "o", "r", " ", "e", "x", "t", "r", "a", "c", "t", "i", "n", "g",
      " ", "t", "e", "x", "t", " ", "c", "o", "n", "t", "e", "n", "t", ")">>

\* "(No text content)"
NoTextContent ==
    <<"(", "N", "o", " ", "t", "e", "x", "t", " ", "c", "o", "n", "t", "e", "n", "t", ")">>

\* the i flag of the regular expressions, on the letters of the tag names
Lower(c) ==
    CASE c = "P" -> "p" [] c = "B" -> "b" [] c = "R" -> "r" [] c = "S" -> "s"
      [] OTHER -> c

\* position of the first c at or after position i of s, 0 when there is none
IndexOfFrom(s, c, i) ==
    LET I == {j \in i..Len(s) : s[j] = c}
    IN  IF I = {} THEN 0 ELSE CHOOSE j \in I : \A k \in I : j <= k

\* the letters of lit stand at position i of s, in either case
LitAt(s, i, lit) ==
    /\ i + Len(lit) - 1 <= Len(s)
    /\ \A k \in 1..Len(lit) : Lower(s[i + k - 1]) = lit[k]

ScriptName == <<"s", "c", "r", "i", "p", "t">>

StyleName == <<"s", "t", "y", "l", "e">>

\* last position of a match of /<name[^>]*>([\s\S]*?)<\/name>/i starting at
\* position i, 0 when there is none
ElementEnd(s, i, name) ==
    LET open == <<"<">> \o name
        close == <<"<", "/">> \o name \o <<">">>
        j == IndexOfFrom(s, ">", i + Len(open))
        K == {k \in (j + 1)..Len(s) : LitAt(s, k, close)}
    IN  IF LitAt(s, i, open) /\ j > 0 /\ K # {}
        THEN (CHOOSE k \in K : \A m \in K : k <= m) + Len(close) - 1
        ELSE 0

\* .replace(/<name[^>]*>([\s\S]*?)<\/name>/gi, "") from position i on
RECURSIVE RemoveElements(_, _, _)
RemoveElements(s, i, name) ==
    IF i > Len(s) THEN <<>>
    ELSE IF ElementEnd(s, i, name) > 0
         THEN RemoveElements(s, ElementEnd(s, i, name) + 1, name)
         ELSE <<s[i]>> \o RemoveElements(s, i + 1, name)

\* /<(br|\/p|p)[^>]*>/i matches at position i
BreakAt(s, i) ==
    /\ \E lit \in {<<"<", "b", "r">>, <<"<", "/", "p">>, <<"<", "p">>} : LitAt(s, i, lit)
    /\ IndexOfFrom(s, ">", i + 1) > 0

\* .replace(/<(br|\/p|p)[^>]*>/gi, "\n") from position i on
RECURSIVE ReplaceBreaks(_, _)
ReplaceBreaks(s, i) ==
    IF i > Len(s) THEN <<>>
    ELSE IF BreakAt(s, i)
         THEN <<"\n">> \o ReplaceBreaks(s, IndexOfFrom(s, ">", i + 1) + 1)
         ELSE <<s[i]>> \o ReplaceBreaks(s, i + 1)

\* .replace(/<[^>]+>/g, "") from position i on
RECURSIVE StripTags(_, _)
StripTags(s, i) ==
    IF i > Len(s) THEN <<>>
    ELSE IF s[i] = "<" /\ IndexOfFrom(s, ">", i + 1) > i + 1
         THEN StripTags(s, IndexOfFrom(s, ">", i + 1) + 1)
         ELSE <<s[i]>> \o StripTags(s, i + 1)

\* .replace(/\s+/g, " ") from position i on
RECURSIVE CollapseSpaces(_, _)
CollapseSpaces(s, i) ==
    IF i > Len(s) THEN <<>>
    ELSE IF s[i] \notin Whitespace THEN <<s[i]>> \o CollapseSpaces(s, i + 1)
    ELSE IF i > 1 /\ s[i - 1] \in Whitespace THEN CollapseSpaces(s, i + 1)
    ELSE <<" ">> \o CollapseSpaces(s, i + 1)

\* the `entities` table of decodeHtmlEntities
Entities ==
    {<<<<"n", "b", "s", "p">>, " ">>, <<<<"a", "m", "p">>, "&">>, <<<<"l", "t">>, "<">>,
     <<<<"g", "t">>, ">">>, <<<<"q", "u", "o", "t">>, "\"">>, <<<<"a", "p", "o", "s">>, "'">>,
     <<<<"#", "3", "9">>, "'">>}

\* names `entities` inherits from Object.prototype
InheritedNames == {<<"v", "a", "l", "u", "e", "O", "f">>, <<"t", "o", "S", "t", "r", "i", "n", "g">>}

\* String(entities[name]) for an inherited name: the text of the function
NativeCode(name) ==
    <<"f", "u", "n", "c", "t", "i", "o", "n", " ">> \o name
    \o <<"(", ")", " ", "{", " ", "[", "n", "a", "t", "i", "v", "e", " ", "c", "o", "d", "e", "]", " ", "}">>

\* entities[entity] || match
DecodeEntity(entity, match) ==
    IF \E e \in Entities : e[1] = entity
    THEN <<(CHOOSE e \in Entities : e[1] = entity)[2]>>
    ELSE IF entity \in InheritedNames THEN NativeCode(entity)
    ELSE match

\* text.replace(/&([^;]+);/g, ...) from position i on
RECURSIVE DecodeFrom(_, _)
DecodeFrom(s, i) ==
    IF i > Len(s) THEN <<>>
    ELSE IF s[i] = "&" /\ IndexOfFrom(s, ";", i + 1) > i + 1
         THEN LET j == IndexOfFrom(s, ";", i + 1)
              IN  DecodeEntity(SubSeq(s, i + 1, j - 1), SubSeq(s, i, j)) \o DecodeFrom(s, j + 1)
         ELSE <<s[i]>> \o DecodeFrom(s, i + 1)

decodeHtmlEntities(s) == DecodeFrom(s, 1)

\* the try block of extractTextFromHtml: calling .replace on a value that
\* is not a string throws a TypeError
TryExtract(v) ==
    IF v.t # "string" THEN [threw |-> TRUE, value |-> Undefined]
    ELSE [threw |-> FALSE,
          value |-> Str(decodeHtmlEntities(trim(CollapseSpaces(
                        StripTags(ReplaceBreaks(
                            RemoveElements(RemoveElements(v.s, 1, ScriptName), 1, StyleName),
                            1), 1), 1))))]

\* what the catch block of extractTextFromHtml does with an exception
Caught_Rethrow(r) == [threw |-> TRUE, value |-> Undefined]

Caught(r) == [threw |-> FALSE, value |-> Str(ErrorExtracting)]

extractTextFromHtml(v) ==
    IF TryExtract(v).threw THEN Caught(TryExtract(v)) ELSE TryExtract(v)

IdleNorm ==
    /\ htmlContent = Undefined
    /\ extracted = [threw |-> FALSE, value |-> Undefined]
    /\ normPc = "idle"

\* one call of extractTextFromHtml
Extract ==
    /\ normPc = "start"
    /\ extracted' = extractTextFromHtml(htmlContent)
    /\ normPc' = "done"
    /\ UNCHANGED htmlContent
    /\ UNCHANGED <<workerVars, sendVars, chunkVars, batchVars, wireVars, uploadVars, emailVars>>

\* the inputs: the values that are no strings, every string of up to
\* MaxHtmlLen characters of markup, every string of up to MaxEntityLen
\* characters of entities, and some documents
HtmlChars == {"<", ">", "p", "/", " ", "a"}

MaxHtmlLen == 4

EntityChars == {"&", ";", "l", "t", "a"}

MaxEntityLen == 5

Documents ==
    {<<"<", "s", "c", "r", "i", "p", "t", ">", "a", "<", "/", "s", "c", "r", "i", "p", "t", ">", "a">>,
     <<"<", "S", "T", "Y", "L", "E", " ", "a", ">", "<", "/", "s", "t", "y", "l", "e", ">">>,
     <<"<", "B", "R", "/", ">", "a", "&", "l", "t", ";", "&", "a", ";", "&", "n", "b", "s", "p", ";">>,
     <<"<", "s", "c", "r", "i", "p", "t", ">", "a">>,
     <<"a", "&", "a", "m", "p", ";", "&", "#", "3", "9", ";", "&", "z", ";", "&">>,
     <<"&", "v", "a", "l", "u", "e", "O", "f", ";">>}

HtmlInputs ==
    {Undefined, Null, NumberValue}
    \cup {Str(s) : s \in SeqsUpTo(HtmlChars, MaxHtmlLen) \cup Documents}
    \cup {Str(s) : s \in SeqsUpTo(EntityChars, MaxEntityLen)}

InitNorm ==
    /\ htmlContent \in HtmlInputs
    /\ extracted = [threw |-> FALSE, value |-> Undefined]
    /\ normPc = "start"

NextNorm == Extract

(***************************************************************************)
(* The email handler: environment check, parseEmail, handleAttachments,    *)
(* target resolution, sendEmbedMessage (fetchGuildData, the embeds, the    *)
(* sends of sendEmbedsWithBatching at the granularity of one request,      *)
(* sendTextAttachment) and sendAutoReply                                   *)
(***************************************************************************)
MAX_DESCRIPTION_LENGTH == 4096

\* which revision's catch block the handler has
Revisions == {"index.js", "part_001"}

\* the environment: the required variables are defined, CHANNEL_MAP maps
\* the recipient, CHANNEL_MAP maps "others", ROLES_REQUIRED is not empty,
\* and whether the recipient's local part, not mapped, is the name of a
\* property of Object.prototype
Envs ==
    {[ok |-> FALSE, mapped |-> FALSE, others |-> FALSE, roles |-> FALSE, inherited |-> FALSE]}
    \cup [ok : {TRUE}, mapped : BOOLEAN, others : BOOLEAN, roles : BOOLEAN, inherited : {FALSE}]
    \cup {[ok |-> TRUE, mapped |-> FALSE, others |-> TRUE, roles |-> FALSE, inherited |-> TRUE]}

\* `parsedEmail` before parseEmail has returned
NoEmail ==
    [parsed |-> FALSE, text |-> Undefined, html |-> Undefined, to |-> FALSE, from |-> FALSE,
     attachments |-> 0, subject |-> 0]

\* what PostalMime returns: the text and html bodies, whether there is a
\* To and a From address, the number of attachments, the length of the subject
Email(t, h, to, from, n, subj) ==
    [parsed |-> TRUE, text |-> t, html |-> h, to |-> to, from |-> from,
     attachments |-> n, subject |-> subj]

Hi == <<"h", "i">>

TextValues == {Undefined, Str(<<>>), Str(Hi)}

HtmlValues == {Undefined, Str(<<>>), Str(<<"<", "p", ">">>), Str(<<"<", "p", ">", "h", "i">>)}

ShortSubject == 10

LongSubject == 6000

AttachmentCounts == {0, 3, BATCH_SIZE + 1}

Emails ==
    {Email(t, h, TRUE, TRUE, 0, ShortSubject) : t \in TextValues, h \in HtmlValues}
    \cup {Email(Str(Hi), Undefined, to, from, 0, ShortSubject) : to \in BOOLEAN, from \in BOOLEAN}
    \cup {Email(t, Undefined, TRUE, TRUE, n, s) :
            t \in {Undefined, Str(Hi)}, n \in AttachmentCounts, s \in {ShortSubject, LongSubject}}

\* the emails an invocation is run on: every email when CHANNEL_MAP maps the
\* recipient; otherwise the emails without attachments and one kind of
\* email with attachments
EmailsFor(e) ==
    IF e.mapped
    THEN Emails
    ELSE {m \in Emails : m.attachments = 0}
         \cup {Email(Str(Hi), Undefined, TRUE, TRUE, 3, ShortSubject)}

\* the error messages the handler can catch
EnvMissing == "GUILD_ID environment variable is not defined."

ParseFailure == "Failed to parse email content."

TypeError == "Cannot read properties of undefined"

MemberLookupFailure == "Failed to find Discord member with username"

MissingRole == "Member does not have the required role(s)."

DmFailure == "Failed to create a direct message channel with the member."

NoTarget == "No target channel found for the recipient."

DeliveryFailure == "Failed to send an embed message to the member."

\* hasRequiredRoles(member)
hasRequiredRoles(e, mem) == mem # "none" /\ (~e.roles \/ mem = "withRole")

\* JSON.stringify(s).length - 2: a line break, a quote and a backslash
\* take two characters
JsonLen(s) == Len(s) + Cardinality({i \in 1..Len(s) : s[i] \in {"\n", "\"", "\\"}})

\* JSON.stringify of the first embed without the subject: title prefix,
\* description, footer, timestamp and thumbnail
HeaderOverhead == 300

\* `[Attachment ${index + 1}](${link})\n`.length for the 0-based index
LineLen(index, link) == 16 + (IF index + 1 < 10 THEN 1 ELSE 2) + link.len

RECURSIVE Sum(_)
Sum(s) == IF s = <<>> THEN 0 ELSE Head(s) + Sum(Tail(s))

\* the loop over attachmentLinks.entries() from the 1-based position i on:
\* a chunk is the sequence of the lengths of its lines
RECURSIVE AttachmentChunks(_, _, _, _)
AttachmentChunks(ls, i, chunks, currentChunk) ==
    IF i > Len(ls)
    THEN (IF Sum(currentChunk) > 0 THEN Append(chunks, currentChunk) ELSE chunks)
    ELSE LET line == LineLen(i - 1, ls[i])
         IN  IF Sum(currentChunk) + line > MAX_DESCRIPTION_LENGTH
             THEN AttachmentChunks(ls, i + 1, Append(chunks, currentChunk), <<line>>)
             ELSE AttachmentChunks(ls, i + 1, chunks, Append(currentChunk, line))

\* JSON.stringify({description: `**📎 Attachments:**\n${chunk}`}).length
AttachmentEmbedSize(chunk) == 39 + Sum(chunk) + Len(chunk)

\* JSON.stringify({description: chunk}).length
BodyEmbedSize(chunk) == 18 + JsonLen(chunk)

\* let emailTextContent = parsedEmail.text || extractTextFromHtml(parsedEmail.html);
\* emailTextContent = emailTextContent || "(No text content)"
BodyText(m) == Or(Or(m.text, extractTextFromHtml(m.html).value), Str(NoTextContent))

\* the evaluation of emailTextContent throws
BodyThrows(m) == Falsy(m.text) /\ extractTextFromHtml(m.html).threw

\* the descriptions of the body embeds
BodyBlocks(m) == ChunksOf(BodyText(m).s, MAX_DESCRIPTION_LENGTH)

\* the sizes of `embeds` of sendEmbedMessage: the first embed, the
\* attachment embeds, the body embeds
EmbedSizes(m, ls) ==
    <<HeaderOverhead + m.subject>>
    \o (IF Len(ls) > 0
        THEN LET chunks == AttachmentChunks(ls, 1, <<>>, <<>>)
             IN  [i \in 1..Len(chunks) |-> AttachmentEmbedSize(chunks[i])]
        ELSE <<>>)
    \o [i \in 1..Len(BodyBlocks(m)) |-> BodyEmbedSize(BodyBlocks(m)[i])]

\* truncateText(text, maxLength).length for a text of n characters
truncateText(n, max) == IF n > max THEN (max - 3) + 3 ELSE n

\* `**👤 From:** ${fromField}\n\n**📩 To:** ${toField}`.length for a long list
\* of recipients
EnvelopeLen == 5000

\* the lengths of the descriptions of `embeds` of sendEmbedMessage: the
\* first embed, the attachment embeds (`**📎 Attachments:**\n${chunk}`, a
\* heading of 20 characters), the body embeds
DescriptionLens(m, ls) ==
    <<truncateText(EnvelopeLen, MAX_DESCRIPTION_LENGTH)>>
    \o (IF Len(ls) > 0
        THEN LET chunks == AttachmentChunks(ls, 1, <<>>, <<>>)
             IN  [i \in 1..Len(chunks) |-> 20 + Sum(chunks[i])]
        ELSE <<>>)
    \o [i \in 1..Len(BodyBlocks(m)) |-> Len(BodyBlocks(m)[i])]

IdleEmail ==
    /\ rev = "index.js"
    /\ env = [ok |-> TRUE, mapped |-> TRUE, others |-> TRUE, roles |-> FALSE, inherited |-> FALSE]
    /\ parsedEmail = NoEmail
    /\ hPc = "idle"
    /\ targetChannelId = "none"
    /\ member = "unset"
    /\ emailTextContent = Undefined
    /\ error = "none"
    /\ replies = <<>>
    /\ mails = <<>>

\* the handler leaves the try block with an exception
Throw_Uncaught(msg) ==
    /\ error' = msg
    /\ hPc' = "done"

Throw(msg) ==
    /\ error' = msg
    /\ hPc' = "catch"

\* the checks of the environment variables
CheckEnv ==
    /\ hPc = "start"
    /\ IF env.ok
       THEN hPc' = "parse" /\ UNCHANGED error
       ELSE Throw(EnvMissing)
    /\ UNCHANGED <<rev, env, parsedEmail, targetChannelId, member, emailTextContent, replies, mails>>
    /\ UNCHANGED <<workerVars, sendVars, chunkVars, batchVars, wireVars, uploadVars, normVars>>

\* parsedEmail = await parseEmail(event) returns
ParseOk(m) ==
    /\ hPc = "parse"
    /\ parsedEmail' = m
    /\ hPc' = "username"
    /\ UNCHANGED <<rev, env, targetChannelId, member, emailTextContent, error, replies, mails>>
    /\ UNCHANGED <<workerVars, sendVars, chunkVars, batchVars, wireVars, uploadVars, normVars>>

\* parseEmail throws
ParseFails ==
    /\ hPc = "parse"
    /\ Throw(ParseFailure)
    /\ UNCHANGED <<rev, env, parsedEmail, targetChannelId, member, emailTextContent, replies, mails>>
    /\ UNCHANGED <<workerVars, sendVars, chunkVars, batchVars, wireVars, uploadVars, normVars>>

\* const username = parsedEmail.to[0].address.split("@")[0], then
\* handleAttachments is called when there are attachments
Username ==
    /\ hPc = "username"
    /\ IF ~parsedEmail.to
       THEN Throw(TypeError) /\ UNCHANGED uploadVars
       ELSE IF parsedEmail.attachments > 0
       THEN /\ hPc' = "attachments"
            /\ attachments' = AttachmentsOf(parsedEmail.attachments)
            /\ upPc' = "start"
            /\ UNCHANGED <<error, upBatches, upIdx, attachmentLinks, links>>
       ELSE hPc' = "resolve" /\ UNCHANGED <<error, uploadVars>>
    /\ UNCHANGED <<rev, env, parsedEmail, targetChannelId, member, emailTextContent, replies, mails>>
    /\ UNCHANGED <<workerVars, sendVars, chunkVars, batchVars, wireVars, normVars>>

\* attachmentLinks = await handleAttachments(...) returns
AttachmentsHandled ==
    /\ hPc = "attachments"
    /\ upPc = "done"
    /\ hPc' = "resolve"
    /\ UNCHANGED <<rev, env, parsedEmail, targetChannelId, member, emailTextContent, error, replies, mails>>
    /\ UNCHANGED <<workerVars, sendVars, chunkVars, batchVars, wireVars, uploadVars, normVars>>

\* a request of the handler is started
Begin(kind, payload, file) ==
    /\ ~InFlight
    /\ calls' = Append(calls, Request(kind, payload, file))
    /\ tries' = 1

\* the request in flight ends
End(o) ==
    /\ InFlight
    /\ o \in Outcomes(tries)
    /\ returns' = Append(returns, o)

\* CHANNEL_MAP[username], CHANNEL_MAP being the plain object built by
\* Object.fromEntries: the channel id of the recipient's entry, else a
\* property the object inherits from Object.prototype under that name (a
\* function, for the user name "constructor"), else undefined ("none")
ChannelMap(e) ==
    IF e.mapped THEN "mapped" ELSE IF e.inherited THEN "inherited" ELSE "none"

\* if (CHANNEL_MAP[username]) ... else findDiscordMember(username) is called
Resolve ==
    /\ hPc = "resolve"
    /\ IF ChannelMap(env) # "none"
       THEN targetChannelId' = ChannelMap(env) /\ hPc' = "deliver" /\ UNCHANGED wireVars
       ELSE /\ Begin("members", <<>>, FALSE)
            /\ hPc' = "members"
            /\ UNCHANGED <<returns, targetChannelId>>
    /\ UNCHANGED <<rev, env, parsedEmail, member, emailTextContent, error, replies, mails>>
    /\ UNCHANGED <<workerVars, sendVars, chunkVars, batchVars, uploadVars, normVars>>

\* findDiscordMember returns the member or undefined, or throws; the
\* handler checks the roles and calls createDmChannel, or falls back to
\* the "others" channel
EndMembers(o, found) ==
    /\ hPc = "members"
    /\ End(o)
    /\ member' = IF o = "ok" THEN found ELSE member
    /\ IF o # "ok"
       THEN Throw(MemberLookupFailure) /\ UNCHANGED <<calls, tries, targetChannelId>>
       ELSE IF found # "none"
       THEN IF ~hasRequiredRoles(env, found)
            THEN Throw(MissingRole) /\ UNCHANGED <<calls, tries, targetChannelId>>
            ELSE /\ calls' = Append(calls, Request("dm", <<>>, FALSE))
                 /\ tries' = 1
                 /\ hPc' = "dm"
                 /\ UNCHANGED <<error, targetChannelId>>
       ELSE IF env.others
            THEN /\ targetChannelId' = "others"
                 /\ hPc' = "deliver"
                 /\ UNCHANGED <<calls, tries, error>>
            ELSE Throw(NoTarget) /\ UNCHANGED <<calls, tries, targetChannelId>>
    /\ UNCHANGED <<rev, env, parsedEmail, emailTextContent, replies, mails>>
    /\ UNCHANGED <<workerVars, sendVars, chunkVars, batchVars, uploadVars, normVars>>

\* createDmChannel returns the channel or throws
EndDm(o) ==
    /\ hPc = "dm"
    /\ End(o)
    /\ IF o = "ok"
       THEN targetChannelId' = "dm" /\ hPc' = "deliver" /\ UNCHANGED error
       ELSE Throw(DmFailure) /\ UNCHANGED targetChannelId
    /\ UNCHANGED <<calls, tries>>
    /\ UNCHANGED <<rev, env, parsedEmail, member, emailTextContent, replies, mails>>
    /\ UNCHANGED <<workerVars, sendVars, chunkVars, batchVars, uploadVars, normVars>>

\* sendEmbedMessage is called: fetchGuildData starts its request
BeginGuild ==
    /\ hPc = "deliver"
    /\ Begin("guild", <<>>, FALSE)
    /\ hPc' = "guild"
    /\ UNCHANGED returns
    /\ UNCHANGED <<rev, env, parsedEmail, targetChannelId, member, emailTextContent, error, replies, mails>>
    /\ UNCHANGED <<workerVars, sendVars, chunkVars, batchVars, uploadVars, normVars>>

\* fetchGuildData returns the guild: fetchWithRateLimit did not throw and
\* `if (!response.ok) throw ...` did not either
GuildFetched_Any(o) == TRUE

GuildFetched(o) == o = "ok"

\* fetchGuildData returns or throws; sendEmbedMessage builds the embeds and
\* calls sendEmbedsWithBatching
EndGuild(o) ==
    /\ hPc = "guild"
    /\ End(o)
    /\ IF GuildFetched(o) /\ ~BodyThrows(parsedEmail)
       THEN /\ emailTextContent' = BodyText(parsedEmail)
            /\ embeds' = EmbedsOf(EmbedSizes(parsedEmail, attachmentLinks))
            /\ idx' = 1
            /\ currentBatch' = <<>>
            /\ currentTotalSize' = 0
            /\ posted' = <<>>
            /\ messages' = <<>>
            /\ batchPc' = "loop"
            /\ hPc' = "embeds"
            /\ UNCHANGED <<error, impl, batches>>
       ELSE Throw(DeliveryFailure) /\ UNCHANGED <<emailTextContent, batchVars>>
    /\ UNCHANGED <<calls, tries>>
    /\ UNCHANGED <<rev, env, parsedEmail, targetChannelId, member, replies, mails>>
    /\ UNCHANGED <<workerVars, sendVars, chunkVars, uploadVars, normVars>>

\* const payload = { embeds: currentBatch }
Payload_Reversed(batch) == Reverse(batch)

Payload(batch) == batch

\* the embed does not fit: await sendEmbedBatch(channelId, payload) starts
\* its request for the current batch
BeginBatchSend ==
    /\ hPc = "embeds"
    /\ batchPc = "loop"
    /\ idx <= Len(embeds)
    /\ MustClose(currentTotalSize, embeds[idx].size, Len(currentBatch))
    /\ Begin("embeds", Payload(currentBatch), FALSE)
    /\ posted' = Append(posted, Payload(currentBatch))
    /\ batchPc' = "sending"
    /\ UNCHANGED <<returns, impl, embeds, idx, currentBatch, currentTotalSize, batches, messages>>
    /\ UNCHANGED <<workerVars, sendVars, chunkVars, uploadVars, emailVars, normVars>>

\* the send does not throw and the loop goes on
Proceeds_Always(o) == TRUE

Proceeds(o) == o = "ok"

\* sendEmbedBatch returns (the batch is recorded, the embed opens the next
\* batch) or throws (sendEmbedMessage rethrows)
EndBatchSend(o) ==
    /\ hPc = "embeds"
    /\ batchPc = "sending"
    /\ End(o)
    /\ IF Proceeds(o)
       THEN /\ messages' = Append(messages, Payload(currentBatch))
            /\ currentBatch' = Push(<<>>, embeds[idx])
            /\ currentTotalSize' = embeds[idx].size
            /\ idx' = idx + 1
            /\ batchPc' = "loop"
            /\ UNCHANGED <<hPc, error>>
       ELSE /\ batchPc' = "failed"
            /\ Throw(DeliveryFailure)
            /\ UNCHANGED <<messages, currentBatch, currentTotalSize, idx>>
    /\ UNCHANGED <<calls, tries, impl, embeds, batches, posted>>
    /\ UNCHANGED <<rev, env, parsedEmail, targetChannelId, member, emailTextContent, replies, mails>>
    /\ UNCHANGED <<workerVars, sendVars, chunkVars, uploadVars, normVars>>

\* after the loop: the remaining embeds are sent
BeginFlush ==
    /\ hPc = "embeds"
    /\ batchPc = "loop"
    /\ idx > Len(embeds)
    /\ Len(currentBatch) > 0
    /\ Begin("embeds", Payload(currentBatch), FALSE)
    /\ posted' = Append(posted, Payload(currentBatch))
    /\ batchPc' = "flushing"
    /\ UNCHANGED <<returns, impl, embeds, idx, currentBatch, currentTotalSize, batches, messages>>
    /\ UNCHANGED <<workerVars, sendVars, chunkVars, uploadVars, emailVars, normVars>>

\* the last sendEmbedBatch returns or throws
EndFlush(o) ==
    /\ hPc = "embeds"
    /\ batchPc = "flushing"
    /\ End(o)
    /\ IF Proceeds(o)
       THEN /\ messages' = Append(messages, Payload(currentBatch))
            /\ batchPc' = "done"
            /\ UNCHANGED <<hPc, error>>
       ELSE /\ batchPc' = "failed"
            /\ Throw(DeliveryFailure)
            /\ UNCHANGED messages
    /\ UNCHANGED <<calls, tries, impl, embeds, idx, currentBatch, currentTotalSize, batches, posted>>
    /\ UNCHANGED <<rev, env, parsedEmail, targetChannelId, member, emailTextContent, replies, mails>>
    /\ UNCHANGED <<workerVars, sendVars, chunkVars, uploadVars, normVars>>

\* the request of sendTextAttachment: a form with files[0] = full_message.txt
\* and no embeds
TextAttachment_NoFile == Request("file", <<>>, FALSE)

TextAttachment == Request("file", <<>>, TRUE)

\* sendEmbedsWithBatching has returned: sendTextAttachment posts the file
\* full_message.txt in a request of its own
BeginFile ==
    /\ hPc = "embeds"
    /\ batchPc = "done"
    /\ IF ~Falsy(emailTextContent) /\ Len(emailTextContent.s) > 0
       THEN /\ Begin(TextAttachment.kind, TextAttachment.payload, TextAttachment.file)
            /\ hPc' = "file"
       ELSE hPc' = "confirm" /\ UNCHANGED <<calls, tries>>
    /\ UNCHANGED returns
    /\ UNCHANGED <<rev, env, parsedEmail, targetChannelId, member, emailTextContent, error, replies, mails>>
    /\ UNCHANGED <<workerVars, sendVars, chunkVars, batchVars, uploadVars, normVars>>

\* sendTextAttachment returns or throws
EndFile(o) ==
    /\ hPc = "file"
    /\ End(o)
    /\ IF o = "ok" THEN hPc' = "confirm" /\ UNCHANGED error ELSE Throw(DeliveryFailure)
    /\ UNCHANGED <<calls, tries>>
    /\ UNCHANGED <<rev, env, parsedEmail, targetChannelId, member, emailTextContent, replies, mails>>
    /\ UNCHANGED <<workerVars, sendVars, chunkVars, batchVars, uploadVars, normVars>>

\* sendAutoReply builds the message: it reads parsedEmail.subject,
\* parsedEmail.to[0].address and parsedEmail.from.address
Constructs(m) == m.parsed /\ m.to /\ m.from

\* catch (error) { console.error("Error sending auto-reply:", error) }:
\* where sendAutoReply goes on after an exception in its try block
\* ("thrown": the exception leaves sendAutoReply and the handler)
AutoReplyCaught_Rethrow == "thrown"

AutoReplyCaught == "done"

\* sendAutoReply(event, parsedEmail, errorMsg) up to event.reply(message);
\* an exception while the message is built is caught and logged
AutoReply(kind, msg) ==
    /\ replies' = Append(replies, [kind |-> kind, msg |-> msg])
    /\ hPc' = IF Constructs(parsedEmail) THEN "reply" ELSE AutoReplyCaught

\* await sendAutoReply(event, parsedEmail) after the delivery
Confirm ==
    /\ hPc = "confirm"
    /\ AutoReply("confirmation", "none")
    /\ UNCHANGED <<rev, env, parsedEmail, targetChannelId, member, emailTextContent, error, mails>>
    /\ UNCHANGED <<workerVars, sendVars, chunkVars, batchVars, wireVars, uploadVars, normVars>>

\* the catch block calls sendAutoReply: index.js always, part_001 only
\* `if (parsedEmail)`
CatchGuard(r, m) == r = "index.js" \/ m.parsed

\* the catch block of the handler
Catch ==
    /\ hPc = "catch"
    /\ IF CatchGuard(rev, parsedEmail)
       THEN AutoReply("error", error)
       ELSE hPc' = "done" /\ UNCHANGED replies
    /\ UNCHANGED <<rev, env, parsedEmail, targetChannelId, member, emailTextContent, error, mails>>
    /\ UNCHANGED <<workerVars, sendVars, chunkVars, batchVars, wireVars, uploadVars, normVars>>

\* await event.reply(message) returns or throws
Reply_AlwaysSend(ok) ==
    /\ hPc = "reply"
    /\ mails' = Append(mails, [via |-> "reply", kind |-> Last(replies).kind, ok |-> ok])
    /\ hPc' = "send"
    /\ UNCHANGED <<rev, env, parsedEmail, targetChannelId, member, emailTextContent, error, replies>>
    /\ UNCHANGED <<workerVars, sendVars, chunkVars, batchVars, wireVars, uploadVars, normVars>>

Reply(ok) ==
    /\ hPc = "reply"
    /\ mails' = Append(mails, [via |-> "reply", kind |-> Last(replies).kind, ok |-> ok])
    /\ hPc' = IF ok THEN "done" ELSE "send"
    /\ UNCHANGED <<rev, env, parsedEmail, targetChannelId, member, emailTextContent, error, replies>>
    /\ UNCHANGED <<workerVars, sendVars, chunkVars, batchVars, wireVars, uploadVars, normVars>>

\* await event.send(message) returns or throws; the exception is caught
Send(ok) ==
    /\ hPc = "send"
    /\ mails' = Append(mails, [via |-> "send", kind |-> Last(replies).kind, ok |-> ok])
    /\ hPc' = IF ok THEN "done" ELSE AutoReplyCaught
    /\ UNCHANGED <<rev, env, parsedEmail, targetChannelId, member, emailTextContent, error, replies>>
    /\ UNCHANGED <<workerVars, sendVars, chunkVars, batchVars, wireVars, uploadVars, normVars>>

InitEmail ==
    /\ rev \in Revisions
    /\ env \in Envs
    /\ parsedEmail = NoEmail
    /\ hPc = "start"
    /\ targetChannelId = "none"
    /\ member = "unset"
    /\ emailTextContent = Undefined
    /\ error = "none"
    /\ replies = <<>>
    /\ mails = <<>>

Members == {"none", "withRole", "withoutRole"}

NextEmail ==
    \/ CheckEnv
    \/ \E m \in EmailsFor(env) : ParseOk(m)
    \/ ParseFails
    \/ Username
    \/ BatchAttachments
    \/ BeginUpload
    \/ \E o \in Outcomes(MAX_RETRIES + 1), urls \in UploadReplies : EndUpload(o, urls)
    \/ UploadsDone
    \/ AttachmentsHandled
    \/ Throttled
    \/ Resolve
    \/ \E o \in Outcomes(MAX_RETRIES + 1), found \in Members : EndMembers(o, found)
    \/ \E o \in Outcomes(MAX_RETRIES + 1) : EndDm(o)
    \/ BeginGuild
    \/ \E o \in Outcomes(MAX_RETRIES + 1) : EndGuild(o)
    \/ AddEmbed
    \/ BeginBatchSend
    \/ \E o \in Outcomes(MAX_RETRIES + 1) : EndBatchSend(o)
    \/ BeginFlush
    \/ \E o \in Outcomes(MAX_RETRIES + 1) : EndFlush(o)
    \/ BeginFile
    \/ \E o \in Outcomes(MAX_RETRIES + 1) : EndFile(o)
    \/ Confirm
    \/ Catch
    \/ \E ok \in BOOLEAN : Reply(ok)
    \/ \E ok \in BOOLEAN : Send(ok)

(***************************************************************************)
(* The worker: several invocations of the email handler in one process,    *)
(* interleaved at their await points, and the module-level state they      *)
(* share: myHeaders, LOG_CHANNEL_ID and the log buffer of Logger. Each     *)
(* invocation parses its email, looks the guild up (fetchGuildData through *)
(* fetchWithRateLimit), sends its auto-reply and flushes the log           *)
(* (sendLogEmbeds, one batch, through fetchWithRateLimit)                  *)
(***************************************************************************)
MaxInvocations == 2

Invocations == 1..MaxInvocations

\* the required variables are defined, LOG_CHANNEL_ID is defined
WorkerEnvs == [ok : BOOLEAN, log : BOOLEAN]

\* the n-th entry invocation i pushes: 1 when the event is received (or
\* the environment check fails), 2 after parseEmail, 3 after fetchGuildData,
\* 4 after sendAutoReply
Entry(i, n) == [by |-> i, n |-> n]

\* Logger.logToDiscord(level, message): this.logEntries.push(...), the
\* buffer being modelled as the set of the entries it holds
logToDiscord(i, n) == logEntries' = logEntries \cup {Entry(i, n)}

\* no entries sent: sendLogEmbeds has not run or has returned at once
NoFlush == {}

\* fetchWithRateLimit(url, options, retries = MAX_RETRIES): the counter a
\* call starts with, `left` being the counter of the invocation's last call
Budget_Leftover(left) == left

Budget(left) == MAX_RETRIES

\* invocation i moves to position p
Goto(i, p) == wPc' = [wPc EXCEPT ![i] = p]

\* an invocation other than i is between its first and its last step
OthersActive(i) == \E j \in Invocations \ {i} : wPc[j] \notin {"idle", "done"}

\* the finally block: Logger.sendLogEmbeds(detailedLog) up to its first
\* await, the buffer being `entries`
sendLogEmbeds(i, entries) ==
    IF ~LOG_CHANNEL_ID \/ Cardinality(entries) = 0
    THEN Goto(i, "done") /\ UNCHANGED <<flushes, wRetries>>
    ELSE /\ flushes' = [flushes EXCEPT ![i] = entries]
         /\ wRetries' = [wRetries EXCEPT ![i] = Budget(@)]
         /\ Goto(i, "flushing")

\* the handler up to await parseEmail(event); with a required variable
\* undefined it throws, the catch block logs, and the finally block runs
Invoke(i) ==
    /\ wPc[i] = "idle"
    /\ overlap' = (overlap \/ OthersActive(i))
    /\ logToDiscord(i, 1)
    /\ IF wEnv.ok
       THEN /\ LOG_CHANNEL_ID' = wEnv.log
            /\ myHeaders' = myHeaders + 1
            /\ Goto(i, "parse")
            /\ UNCHANGED <<flushes, wRetries>>
       ELSE /\ sendLogEmbeds(i, logEntries')
            /\ UNCHANGED <<LOG_CHANNEL_ID, myHeaders>>
    /\ UNCHANGED wEnv
    /\ UNCHANGED <<sendVars, chunkVars, batchVars, wireVars, uploadVars, emailVars, normVars>>

\* parseEmail has returned; the handler logs and goes on to
\* fetchGuildData, which calls fetchWithRateLimit with myHeaders
Lookup(i) ==
    /\ wPc[i] = "parse"
    /\ logToDiscord(i, 2)
    /\ wRetries' = [wRetries EXCEPT ![i] = Budget(@)]
    /\ Goto(i, "lookup")
    /\ UNCHANGED <<wEnv, myHeaders, LOG_CHANNEL_ID, flushes, overlap>>
    /\ UNCHANGED <<sendVars, chunkVars, batchVars, wireVars, uploadVars, emailVars, normVars>>

\* while (response.status === 429 && retries > 0) { ...; retries-- }
Again(i) ==
    /\ wPc[i] \in {"lookup", "flushing"}
    /\ wRetries[i] > 0
    /\ wRetries' = [wRetries EXCEPT ![i] = @ - 1]
    /\ UNCHANGED <<wEnv, wPc, myHeaders, LOG_CHANNEL_ID, logEntries, flushes, overlap>>
    /\ UNCHANGED <<sendVars, chunkVars, batchVars, wireVars, uploadVars, emailVars, normVars>>

\* fetchGuildData returns or throws and logs; the handler goes on to
\* await sendAutoReply, in its try block or in its catch block
LookedUp(i) ==
    /\ wPc[i] = "lookup"
    /\ logToDiscord(i, 3)
    /\ Goto(i, "reply")
    /\ UNCHANGED <<wEnv, wRetries, myHeaders, LOG_CHANNEL_ID, flushes, overlap>>
    /\ UNCHANGED <<sendVars, chunkVars, batchVars, wireVars, uploadVars, emailVars, normVars>>

\* sendAutoReply returns and logs; the finally block runs
Replied(i) ==
    /\ wPc[i] = "reply"
    /\ logToDiscord(i, 4)
    /\ sendLogEmbeds(i, logEntries')
    /\ UNCHANGED <<wEnv, myHeaders, LOG_CHANNEL_ID, overlap>>
    /\ UNCHANGED <<sendVars, chunkVars, batchVars, wireVars, uploadVars, emailVars, normVars>>

\* await sendEmbedBatch(LOG_CHANNEL_ID, payload, attachments) returns, or
\* pushes an error entry and throws; finally { this.logEntries = [] }
Flushed(i) ==
    /\ wPc[i] = "flushing"
    /\ logEntries' = {}
    /\ Goto(i, "done")
    /\ UNCHANGED <<wEnv, wRetries, myHeaders, LOG_CHANNEL_ID, flushes, overlap>>
    /\ UNCHANGED <<sendVars, chunkVars, batchVars, wireVars, uploadVars, emailVars, normVars>>

IdleWorker ==
    /\ wEnv = [ok |-> TRUE, log |-> TRUE]
    /\ wPc = [i \in Invocations |-> "idle"]
    /\ wRetries = [i \in Invocations |-> 0]
    /\ myHeaders = 0
    /\ LOG_CHANNEL_ID = FALSE
    /\ logEntries = {}
    /\ flushes = [i \in Invocations |-> NoFlush]
    /\ overlap = FALSE

\* the module has been loaded and no invocation has run
InitWorker ==
    /\ wEnv \in WorkerEnvs
    /\ wPc = [i \in Invocations |-> "idle"]
    /\ wRetries = [i \in Invocations |-> 0]
    /\ myHeaders = 0
    /\ LOG_CHANNEL_ID = FALSE
    /\ logEntries = {}
    /\ flushes = [i \in Invocations |-> NoFlush]
    /\ overlap = FALSE

NextWorker ==
    \/ \E i \in Invocations : Invoke(i)
    \/ \E i \in Invocations : Lookup(i)
    \/ \E i \in Invocations : Again(i)
    \/ \E i \in Invocations : LookedUp(i)
    \/ \E i \in Invocations : Replied(i)
    \/ \E i \in Invocations : Flushed(i)

(***************************************************************************)
(* Specifications                                                          *)
(***************************************************************************)
\* one send of a batch: sendEmbedBatch with fetchWithRateLimit
IdleHandler == IdleWire /\ IdleUpload /\ IdleEmail /\ IdleNorm /\ IdleWorker

Init == InitSend /\ IdleChunk /\ IdleBatch /\ IdleHandler

Next == NextSend

Spec == Init /\ [][Next]_vars

\* one run of the chunking loop on a body text
InitChunkOnly == InitChunk /\ IdleSend /\ IdleBatch /\ IdleHandler

SpecChunk == InitChunkOnly /\ [][NextChunk]_vars

\* one run of sendEmbedsWithBatching on a sequence of embeds
InitBatchOnly == InitBatch /\ IdleSend /\ IdleChunk /\ IdleHandler

SpecBatch == InitBatchOnly /\ [][NextBatch]_vars

\* one run of handleAttachments on a list of attachments
InitUploadOnly ==
    InitUpload /\ IdleSend /\ IdleChunk /\ IdleBatch /\ IdleWire /\ IdleEmail /\ IdleNorm /\ IdleWorker

SpecUpload == InitUploadOnly /\ [][NextUpload]_vars

\* one call of extractTextFromHtml
InitNormOnly ==
    InitNorm /\ IdleSend /\ IdleChunk /\ IdleBatch /\ IdleWire /\ IdleUpload /\ IdleEmail /\ IdleWorker

SpecNorm == InitNormOnly /\ [][NextNorm]_vars

\* one invocation of the email handler
InitEmailOnly ==
    InitEmail /\ IdleSend /\ IdleChunk /\ IdleBatch /\ IdleWire /\ IdleUpload /\ IdleNorm /\ IdleWorker

SpecEmail == InitEmailOnly /\ [][NextEmail]_vars

\* the handler under the claim's proviso: every call it awaits returns or
\* throws, so a handler that can take a step eventually takes one
SpecEmailFair == SpecEmail /\ WF_vars(NextEmail)

\* the invocations of one worker process
InitWorkerOnly ==
    InitWorker /\ IdleSend /\ IdleChunk /\ IdleBatch /\ IdleWire /\ IdleUpload /\ IdleEmail /\ IdleNorm

SpecWorker == InitWorkerOnly /\ [][NextWorker]_vars

(***************************************************************************)
(* Properties of the sender (checked under Spec)                           *)
(***************************************************************************)
AllThrottled == \A i \in 1..Len(statuses) : statuses[i] = 429

\* the whole value is a decimal literal: digits with at most one point
IsNumeric(v) ==
    /\ \E i \in 1..Len(v) : v[i] \in HeaderDigits
    /\ \A i \in 1..Len(v) : v[i] \in HeaderDigits \cup {"."}
    /\ Cardinality({i \in 1..Len(v) : v[i] = "."}) <= 1

\* no prefix of the value is a number
Unparsable(v) ==
    \/ v = <<>>
    \/ v[1] \notin HeaderDigits \cup {"."}
    \/ v[1] = "." /\ (Len(v) = 1 \/ v[2] \notin HeaderDigits)

\* C1: when every response is 429 the sender fails with the rate-limit
\* error after exactly MAX_RETRIES + 1 calls (MAX_RETRIES retries, one wait
\* before each), and no send ever makes more than MAX_RETRIES + 1 calls.
C1_RetryTermination ==
    /\ Len(statuses) <= MAX_RETRIES + 1
    /\ (pc = "done" /\ AllThrottled) =>
          /\ result = RateLimitExceeded
          /\ Len(statuses) = MAX_RETRIES + 1
          /\ waits = MAX_RETRIES
    /\ result = RateLimitExceeded => (AllThrottled /\ Len(statuses) = MAX_RETRIES + 1)

C1_Witness ==
    /\ pc = "done"
    /\ result = RateLimitExceeded
    /\ statuses = <<429, 429, 429, 429>>

\* C2: k 429 responses (k <= MAX_RETRIES) followed by a 2xx response make
\* the send succeed after exactly k + 1 calls and k waits; every wait
\* precedes a retry and none follows the last attempt.
C2_RetrySuccess ==
    /\ (pc = "done" /\ Last(statuses) \in 200..299) =>
          /\ result = Sent
          /\ \A i \in 1..(Len(statuses) - 1) : statuses[i] = 429
          /\ waits = Len(statuses) - 1
    /\ pc \in {"check", "done"} => waits = Len(statuses) - 1
    /\ pc = "sleeping" => waits = Len(statuses)
    /\ (pc = "done" /\ Len(statuses) <= MAX_RETRIES) => Last(statuses) # 429

C2_Witness ==
    /\ pc = "done"
    /\ statuses = <<429, 200>>
    /\ waits = 1
    /\ result = Sent

\* C3: the wait before a retry is the Retry-After value in seconds times
\* 1000 ms when the header is present and numeric, and 1000 ms when the
\* header is absent or its value cannot be parsed as a number.
C3_WaitDuration ==
    pc = "sleeping" =>
        LET h == response.retryAfter
        IN  /\ ~h.present => retryAfterMs = Num(DEFAULT_RETRY_AFTER_MS)
            /\ (h.present /\ IsNumeric(h.value)) =>
                  (~retryAfterMs.nan /\ retryAfterMs = parseFloatTimes1000(h.value))
            /\ (h.present /\ Unparsable(h.value)) => retryAfterMs = Num(DEFAULT_RETRY_AFTER_MS)

\* C4: the sender stops at the first response that is not 429, and a
\* response that is neither 429 nor 2xx makes the batch send fail with an
\* error carrying that status and the response body.
C4_NoRetryOnFailure ==
    /\ \A i \in 1..(Len(statuses) - 1) : statuses[i] = 429
    /\ (pc = "done" /\ Last(statuses) # 429 /\ Last(statuses) \notin 200..299) =>
          /\ result.kind = "HttpError"
          /\ result.status = Last(statuses)
          /\ result.body = response.body

C4_Witness ==
    /\ pc = "done"
    /\ statuses = <<429, 500>>
    /\ result.kind = "HttpError"
    /\ result.body # ""

(***************************************************************************)
(* Properties of the chunker (checked under SpecChunk)                     *)
(***************************************************************************)
RECURSIVE Flatten(_)
Flatten(ss) == IF ss = <<>> THEN <<>> ELSE Head(ss) \o Flatten(Tail(ss))

\* the text without its whitespace characters
NonWhitespace(s) == SelectSeq(s, LAMBDA c : c \notin Whitespace)

\* `content` of the index.js loop after k iterations on the text c
RECURSIVE ContentAfter(_, _, _)
ContentAfter(c, max, k) ==
    IF k = 0 \/ Len(c) = 0 THEN c
    ELSE ContentAfter(Remaining(c, CutChunk(substring(c, 0, max))), max, k - 1)

\* 0-based positions of the spaces of p strictly after 80% of its length
TailSpaces(p) == {i \in 0..(Len(p) - 1) : p[i + 1] = " " /\ 5 * i > 4 * Len(p)}

\* 0-based positions of the spaces of p at or after 80% of its length
TailSpacesInclusive(p) == {i \in 0..(Len(p) - 1) : p[i + 1] = " " /\ 5 * i >= 4 * Len(p)}

MaxOf(S) == CHOOSE i \in S : \A j \in S : j <= i

\* C5: every block emitted by the chunker has length <= maxLength, a block
\* produced by merging a small trailing remainder included.
C5_ChunkBound == \A i \in 1..Len(blocks) : Len(blocks[i]) <= maxLength

\* the blocks bs rebuild the text t: every block is the next piece of t as
\* it stands, only whitespace lies between two pieces and after the last,
\* and a merged last block is a piece, a single space and the trimmed rest
RECURSIVE Rebuilds(_, _, _)
Rebuilds(bs, t, mergedLast) ==
    IF bs = <<>> THEN NonWhitespace(t) = <<>>
    ELSE LET b == Head(bs)
         IN  IF Len(bs) = 1 /\ mergedLast
             THEN \E k \in 1..Len(b) :
                     /\ b[k] = " "
                     /\ k <= Len(t)
                     /\ t[k] \in Whitespace
                     /\ SubSeq(b, 1, k - 1) = SubSeq(t, 1, k - 1)
                     /\ SubSeq(b, k + 1, Len(b)) = trim(SubSeq(t, k, Len(t)))
             ELSE /\ Len(b) <= Len(t)
                  /\ b = SubSeq(t, 1, Len(b))
                  /\ Rebuilds(Tail(bs), trim(SubSeq(t, Len(b) + 1, Len(t))), mergedLast)

\* C6: the blocks emitted so far followed by the text still to be chunked
\* hold exactly the non-whitespace characters of the original text, in
\* order; when the loop is over the blocks alone do, and they rebuild the
\* text up to the whitespace at the cuts and the space of a merge.
C6_RoundTrip ==
    /\ NonWhitespace(Flatten(blocks) \o content) = NonWhitespace(text)
    /\ chunkPc = "done" =>
          /\ NonWhitespace(Flatten(blocks)) = NonWhitespace(text)
          /\ Rebuilds(blocks, text, merged)

C6_Witness ==
    /\ chunkPc = "done"
    /\ Len(blocks) >= 2
    /\ Len(Flatten(blocks)) < Len(text)
    /\ NonWhitespace(text) # <<>>

\* C7 as amended: when the prefix taken holds a space strictly after 80% of
\* its length, the chunk ends just before the last such space (in the
\* revisions with the merge rule a merged remainder follows that space).
C7_WordBoundary ==
    (blocks # <<>> /\ TailSpaces(prefix) # {}) =>
        LET cut == MaxOf(TailSpaces(prefix))
            block == Last(blocks)
        IN  IF merged
            THEN /\ Len(block) > cut + 1
                 /\ SubSeq(block, 1, cut) = SubSeq(prefix, 1, cut)
                 /\ block[cut + 1] = " "
            ELSE block = SubSeq(prefix, 1, cut)

C7_Witness ==
    /\ blocks # <<>>
    /\ ~merged
    /\ TailSpaces(prefix) # {}
    /\ Len(prefix) = maxLength
    /\ Len(Last(blocks)) < Len(prefix) - 1

\* C7 as claimed: a space at or after 80% of the prefix length makes the
\* block end just before the last such space.
C7_Original ==
    (blocks # <<>> /\ ~merged /\ TailSpacesInclusive(prefix) # {}) =>
        Last(blocks) = SubSeq(prefix, 1, MaxOf(TailSpacesInclusive(prefix)))

Produced == {posted[i] : i \in 1..Len(posted)} \cup {batches[i] : i \in 1..Len(batches)}

\* C9: every batch produced (and sent) holds at most MAX_EMBEDS_PER_MESSAGE
\* units, and the serialized sizes of its units sum to at most
\* MAX_TOTAL_EMBED_SIZE, whatever the sizes of the units.
C9_BatchBound ==
    \A b \in Produced :
        /\ Len(b) <= MAX_EMBEDS_PER_MESSAGE
        /\ TotalSize(b) <= MAX_TOTAL_EMBED_SIZE

\* C10: the batches, flattened in the order they are produced, are exactly
\* the input sequence of units: during the index.js loop the batches sent
\* and the current batch hold the units consumed so far, and a completed
\* run has sent every unit once, in its original position.
C10_OrderPreserved ==
    /\ (impl = "index.js" /\ batchPc = "loop") =>
          Flatten(messages) \o currentBatch = SubSeq(embeds, 1, idx - 1)
    /\ (impl = "part_001" /\ batchPc # "loop") => Flatten(batches) = embeds
    /\ batchPc = "done" => Flatten(messages) = embeds

C10_Witness ==
    /\ batchPc = "done"
    /\ Len(messages) >= 2
    /\ Len(embeds) > MAX_EMBEDS_PER_MESSAGE
    /\ \E i \in 1..Len(embeds) : embeds[i].size # SmallSize

(***************************************************************************)
(* Properties of the delivery (checked under SpecEmail)                    *)
(***************************************************************************)
\* positions in `calls` of the requests of the given kind
CallsOf(kind) == {i \in 1..Len(calls) : calls[i].kind = kind}

\* the payloads of the sendEmbedBatch requests, in the order they started
SentPayloads ==
    LET sends == SelectSeq(calls, LAMBDA c : c.kind = "embeds")
    IN  [i \in 1..Len(sends) |-> sends[i].payload]

\* C11: batches are sent strictly one after the other in batch order: a
\* batch send is started only when every earlier batch send has returned
\* successfully, at most one request is in flight at any time, and the
\* batches sent so far, one after the other, are the embeds in source order.
C11_SequentialBatches ==
    /\ Len(calls) - Len(returns) \in {0, 1}
    /\ \A i \in CallsOf("embeds"), j \in CallsOf("embeds") :
          i < j => i <= Len(returns) /\ returns[i] = "ok"
    /\ Flatten(SentPayloads) = SubSeq(embeds, 1, Len(Flatten(SentPayloads)))
    /\ SentPayloads = posted

\* the third batch send is in flight and has been throttled, after the
\* first two were throttled or not and returned
C11_Witness ==
    /\ Cardinality(CallsOf("embeds")) = 3
    /\ InFlight
    /\ Last(calls).kind = "embeds"
    /\ tries = MAX_RETRIES + 1
    /\ Len(Flatten(SentPayloads)) >= 3

\* the sendEmbedBatch requests that ended with an exception
FailedSends == {i \in CallsOf("embeds") : i <= Len(returns) /\ returns[i] # "ok"}

\* the payloads of the first n requests that are sendEmbedBatch requests
PayloadsBefore(n) ==
    LET sends == SelectSeq(SubSeq(calls, 1, n), LAMBDA c : c.kind = "embeds")
    IN  [i \in 1..Len(sends) |-> sends[i].payload]

\* C12: when the send of batch k fails, the batches before k stay
\* delivered (they are exactly the recorded messages), no further request
\* of any kind is issued for the email - no delete or undo, no later batch,
\* no full-text file - and the failure is the only failed batch send.
C12_AbortOnBatchFailure ==
    \A k \in FailedSends :
        /\ Len(calls) = k
        /\ messages = PayloadsBefore(k - 1)
        /\ \A i \in CallsOf("embeds") : i < k => returns[i] = "ok"
        /\ \A i \in 1..Len(calls) : calls[i].kind # "file" /\ ~calls[i].file

\* the handler has ended after the third batch send ran out of retries,
\* the first two batches having been delivered
C12_Witness ==
    /\ hPc = "done"
    /\ batchPc = "failed"
    /\ Len(messages) = 2
    /\ Last(returns) = "RateLimitExceeded"

\* sendEmbedMessage has returned without an exception
Delivered == hPc \in {"confirm", "reply", "send", "done"} /\ error = "none"

\* the requests that carry the full-text file
FileCalls == {i \in 1..Len(calls) : calls[i].file}

CeilDiv(n) == (n + BATCH_SIZE - 1) \div BATCH_SIZE

\* the payloads of the upload requests, in the order they started
Submitted ==
    LET ups == SelectSeq(calls, LAMBDA c : c.kind = "upload")
    IN  [i \in 1..Len(ups) |-> ups[i].payload]

\* C14: once handleAttachments has grouped n attachments there are
\* ceil(n / 10) batches, each of at most 10 and all but the last of exactly
\* 10, their concatenation is the input list, and the upload requests are
\* started one at a time (never while a request is in flight), batch i
\* being the i-th request; 23 attachments give the sizes 10, 10, 3.
C14_AttachmentWindows ==
    /\ upPc \in {"loop", "uploading", "done"} =>
          /\ Len(upBatches) = CeilDiv(Len(attachments))
          /\ \A i \in 1..Len(upBatches) :
                /\ Len(upBatches[i]) \in 1..BATCH_SIZE
                /\ i < Len(upBatches) => Len(upBatches[i]) = BATCH_SIZE
          /\ Flatten(upBatches) = attachments
          /\ Len(attachments) = 23 =>
                [i \in 1..Len(upBatches) |-> Len(upBatches[i])] = <<10, 10, 3>>
    /\ Len(calls) - Len(returns) \in {0, 1}
    /\ Submitted = SubSeq(upBatches, 1, Len(Submitted))
    /\ upPc = "done" => Submitted = upBatches

\* the 23 attachments have been uploaded in three requests
C14_Witness ==
    /\ upPc = "done"
    /\ Len(attachments) = 23
    /\ Len(Submitted) = 3

\* C15: the attachment-link list is at every moment, and so when
\* handleAttachments returns, the concatenation in submission order of the
\* URL lists the uploads returned, each list in the order it was returned
\* (one list per upload request that has ended).
C15_LinksInOrder ==
    /\ attachmentLinks = Flatten(links)
    /\ Len(links) = Len(returns)
    /\ upPc = "done" => Len(links) = Len(upBatches)

\* three uploads have returned URLs, the second in another order than its
\* files were submitted
C15_Witness ==
    /\ upPc = "done"
    /\ Len(links) = 3
    /\ \A i \in 1..3 : Len(links[i]) = Len(upBatches[i])
    /\ links[2][1].att = upBatches[2][Len(upBatches[2])]
    /\ links[1][1].att = upBatches[1][1]

(***************************************************************************)
(* Properties of the email handler (checked under SpecEmail)               *)
(***************************************************************************)
\* C16: an upload that fails (error status, retries exhausted) or whose
\* response has no attachment URLs contributes the empty list; every batch
\* is still submitted; the handler leaves handleAttachments only towards
\* target resolution, never with an exception; and the embeds of the
\* delivery are built from the links the uploads did return.
C16_UploadFailureNonFatal ==
    /\ [](\A i \in 1..Len(links) : returns[i] # "ok" => links[i] = <<>>)
    /\ [](upPc = "done" => Submitted = upBatches)
    /\ [](hPc = "embeds" =>
            /\ attachmentLinks = Flatten(links)
            /\ embeds = EmbedsOf(EmbedSizes(parsedEmail, attachmentLinks)))
    /\ [][hPc = "attachments" => hPc' \in {"attachments", "resolve"} /\ error' = "none"]_vars

\* the delivery has succeeded with the links of the second upload after
\* the first upload failed
C16_Witness ==
    /\ hPc = "done"
    /\ error = "none"
    /\ Len(links) = 2
    /\ returns[1] = "HttpError"
    /\ links[2] # <<>>
    /\ attachmentLinks = links[2]
    /\ Len(embeds) = 3

\* the email has neither a text nor an html body (absent or empty)
NoBody(m) == m.parsed /\ Falsy(m.text) /\ Falsy(m.html)

\* C17: for an email with neither text nor html, once sendEmbedMessage has
\* chosen the body text it is the placeholder "(No text content)", the
\* chunker makes exactly one body block of it, holding the placeholder, and
\* a successful delivery has sent the embeds in exactly one batch.
C17_EmptyBodyPlaceholder ==
    (NoBody(parsedEmail) /\ hPc \in {"embeds", "file", "confirm"}) =>
        /\ emailTextContent = Str(NoTextContent)
        /\ BodyBlocks(parsedEmail) = <<NoTextContent>>
        /\ hPc = "confirm" => Len(posted) = 1

(***************************************************************************)
(* Properties of the text normalizer (checked under SpecNorm)              *)
(***************************************************************************)
\* C18: whatever value extractTextFromHtml is given - a string, undefined,
\* null, a number - it returns a string and throws nothing; when its try
\* block fails it returns the placeholder "(Error extracting text content)".
C18_NormalizerNeverThrows ==
    normPc = "done" =>
        /\ ~extracted.threw
        /\ extracted.value.t = "string"
        /\ TryExtract(htmlContent).threw => extracted.value = Str(ErrorExtracting)
        /\ htmlContent.t # "string" => extracted.value = Str(ErrorExtracting)

\* extractTextFromHtml(undefined) has returned the placeholder
C18_Witness ==
    /\ normPc = "done"
    /\ htmlContent = Undefined
    /\ extracted = [threw |-> FALSE, value |-> Str(ErrorExtracting)]

(***************************************************************************)
(* Properties of the auto-reply (checked under SpecEmail)                  *)
(***************************************************************************)
\* target resolution, every embed batch send and the full-text file upload
\* have all succeeded
AllSucceeded ==
    /\ targetChannelId # "none"
    /\ batchPc = "done"
    /\ \A i \in CallsOf("embeds") : i <= Len(returns) /\ returns[i] = "ok"
    /\ \E i \in CallsOf("file") : i <= Len(returns) /\ returns[i] = "ok"

\* C19: sendAutoReply is never called twice in an invocation, and when an
\* invocation whose parsing succeeded has ended it has been called exactly
\* once: for the confirmation if and only if target resolution, every
\* embed batch send and the full-text file upload all succeeded, and
\* otherwise for the error notification with the message of the exception
\* caught; every message handed to event.reply or event.send is that reply.
C19_ExactlyOneAutoReply ==
    /\ Len(replies) <= 1
    /\ \A i \in 1..Len(mails) : Len(replies) = 1 /\ mails[i].kind = replies[1].kind
    /\ (hPc = "done" /\ parsedEmail.parsed) =>
          /\ Len(replies) = 1
          /\ replies[1].kind \in {"confirmation", "error"}
          /\ replies[1].kind = "confirmation" <=> AllSucceeded
          /\ replies[1].kind = "error" => error # "none" /\ replies[1].msg = error

\* the error notification has been sent after the second batch send failed
C19_Witness ==
    /\ hPc = "done"
    /\ parsedEmail.parsed
    /\ replies = <<[kind |-> "error", msg |-> DeliveryFailure]>>
    /\ Len(messages) = 1
    /\ batchPc = "failed"
    /\ mails = <<[via |-> "reply", kind |-> "error", ok |-> TRUE]>>

\* C20: when parseEmail has failed (the event always carries the sender
\* address, event.from), the invocation ends with no request sent to the
\* destination and with an error auto-reply handed to event.reply.
C20_ParseFailureReply ==
    (hPc = "done" /\ error = ParseFailure) =>
        /\ calls = <<>>
        /\ mails # <<>>
        /\ mails[1].kind = "error"

\* the auto-reply failed: its message could not be built, or event.reply
\* and event.send both threw
AutoReplyFailed ==
    /\ replies # <<>>
    /\ \/ ~(parsedEmail.parsed /\ parsedEmail.to /\ parsedEmail.from)
       \/ Len(mails) = 2 /\ ~mails[2].ok

\* C21: a failure while the auto-reply is sent (the message cannot be built,
\* or event.reply and the event.send fallback both fail) is swallowed: no
\* exception leaves the handler, the handler is then finished, and from the
\* call of sendAutoReply on no request is issued or answered and the
\* delivered messages stay as they are
C21_AutoReplyFailureSwallowed ==
    /\ [](hPc # "thrown")
    /\ [](AutoReplyFailed => hPc = "done")
    /\ [][(hPc \in {"confirm", "catch", "reply", "send"})
           => (<<calls, returns, messages, posted, error>>' = <<calls, returns, messages, posted, error>>)]_vars

\* a completed delivery whose confirmation failed on event.reply and on
\* event.send
C21_Witness ==
    /\ hPc = "done"
    /\ error = "none"
    /\ messages # <<>>
    /\ Len(replies) = 1 /\ replies[1].kind = "confirmation"
    /\ Len(mails) = 2 /\ ~mails[1].ok /\ ~mails[2].ok
    /\ mails[2].via = "send"

\* the invocations that have started have all returned
Quiet == \A j \in Invocations : wPc[j] \in {"idle", "done"}

\* C22: at the end of an invocation that did not overlap another one, the
\* log buffer has been flushed by that invocation and is empty
C22_FlushedOnceAndEmpty ==
    \A i \in Invocations :
        (wPc[i] = "done" /\ Quiet /\ ~overlap)
            => (logEntries = {} /\ flushes[i] # NoFlush)

\* the invocations whose flush includes the entry e
FlushesOf(e) == {j \in Invocations : e \in flushes[j]}

\* C23: with a log channel configured, once the invocations have returned,
\* interleaved or not, every entry the handler pushed has been sent by
\* exactly one flush
C23_EveryEntryFlushedOnce ==
    (LOG_CHANNEL_ID /\ \A i \in Invocations : wPc[i] = "done")
        => \A i \in Invocations, n \in 1..4 : Cardinality(FlushesOf(Entry(i, n))) = 1

\* C24: whenever an invocation looks the guild up, myHeaders holds exactly
\* one Authorization value
C24_OneAuthorizationValue ==
    \A i \in Invocations : wPc[i] = "lookup" => myHeaders = 1

\* the invocation that starts a call of fetchWithRateLimit in this step
StartsSend(i) ==
    /\ wPc[i] \notin {"lookup", "flushing"}
    /\ wPc'[i] \in {"lookup", "flushing"}

\* C26: the retry counter of a call of fetchWithRateLimit is never below 0;
\* every call starts with MAX_RETRIES, whatever the invocation's earlier
\* call or another invocation's call has used up; and a step changes the
\* counter of the acting invocation only, by one retry at a time
C26_FreshRetryBudget ==
    /\ [](\A i \in Invocations : wRetries[i] >= 0 /\ wRetries[i] <= MAX_RETRIES)
    /\ [][\A i \in Invocations :
            /\ StartsSend(i) => wRetries'[i] = MAX_RETRIES
            /\ (wPc'[i] = wPc[i] /\ wRetries'[i] # wRetries[i])
                => /\ wPc[i] \in {"lookup", "flushing"}
                   /\ wRetries'[i] = wRetries[i] - 1
                   /\ \A j \in Invocations \ {i} : wRetries'[j] = wRetries[j]]_vars

\* an invocation starts its second call with the full budget after its
\* first call used every retry, while another invocation's call has used
\* some of its own
C26_Witness ==
    \E i, j \in Invocations :
        /\ i # j
        /\ wPc[i] = "flushing" /\ wRetries[i] = MAX_RETRIES
        /\ wPc[j] = "lookup" /\ wRetries[j] = 0
        /\ overlap

\* C25: while a request that uploads attachments or sends a batch of
\* embeds is in flight, the target channel of the email has been determined
C25_TargetResolvedFirst ==
    (InFlight /\ Last(calls).kind \in {"upload", "embeds"}) => targetChannelId # "none"

\* the total size of the first n units of a batch
PrefixSize(batch, n) == Sum([p \in 1..n |-> batch[p].size])

\* C27: once the batcher has returned, every unit that is not the first of
\* its batch was added to a batch that held fewer than 10 units and whose
\* total with the unit was at most 6000, and every batch but the last was
\* closed before a unit that would have made its total greater than 6000 or
\* when it already held 10 units
C27_CloseRule ==
    batchPc = "done" =>
        /\ \A k \in 1..Len(messages) : \A p \in 2..Len(messages[k]) :
              /\ PrefixSize(messages[k], p - 1) + messages[k][p].size <= 6000
              /\ p - 1 < 10
        /\ \A k \in 1..(Len(messages) - 1) :
              /\ messages[k + 1] # <<>>
              /\ \/ PrefixSize(messages[k], Len(messages[k])) + messages[k + 1][1].size > 6000
                 \/ Len(messages[k]) >= 10

\* a batch whose second unit brought its total to exactly 6000, followed by
\* a batch of 10 units and a batch opened by the 11th
C27_Witness ==
    /\ batchPc = "done"
    /\ Len(messages) = 3
    /\ Len(messages[1]) = 2 /\ PrefixSize(messages[1], 2) = 6000
    /\ Len(messages[2]) = 10
    /\ Len(messages[3]) >= 1

\* C28: once sendEmbedMessage has built its embeds, the description of
\* every embed (the first one, the attachment embeds with their heading,
\* the body embeds) has at most 4096 characters
C28_DescriptionBound ==
    hPc = "embeds" =>
        \A i \in 1..Len(DescriptionLens(parsedEmail, attachmentLinks)) :
            DescriptionLens(parsedEmail, attachmentLinks)[i] <= 4096

\* C29: every iteration of the chunking loop pushes a block of at least one
\* character and leaves a strictly shorter remaining text, so that the
\* blocks pushed and the remaining characters never outnumber the characters
\* of the text; the loop ends only with no text remaining; and on the empty
\* text it ends without a block
C29_ChunkerTerminates ==
    [][/\ (blocks' # blocks) => (Len(Last(blocks')) > 0 /\ Len(content') < Len(content))
       /\ Len(blocks') + Len(content') <= Len(text')
       /\ (chunkPc' = "done") => (content' = <<>>)
       /\ (chunkPc' = "done" /\ text' = <<>>) => (blocks' = <<>>)]_vars

\* a run of several iterations that has ended
C29_Witness ==
    /\ chunkPc = "done"
    /\ Len(blocks) >= 3
    /\ content = <<>>

\* the text holds the literal lit at position i
Holds(s, i, lit) == i + Len(lit) - 1 <= Len(s) /\ SubSeq(s, i, i + Len(lit) - 1) = lit

\* the recognized entity written at position i of the text, if any
EntityAt(s, i) == {e \in Entities : Holds(s, i, <<"&">> \o e[1] \o <<";">>)}

\* the text with every occurrence of a recognized entity replaced by its
\* character and everything else kept, from position i on
RECURSIVE Decoded(_, _)
Decoded(s, i) ==
    IF i > Len(s) THEN <<>>
    ELSE IF EntityAt(s, i) # {}
         THEN LET e == CHOOSE e \in EntityAt(s, i) : TRUE
              IN  <<e[2]>> \o Decoded(s, i + Len(e[1]) + 2)
         ELSE <<s[i]>> \o Decoded(s, i + 1)

\* a text without markup and whitespace: the steps of extractTextFromHtml
\* before the decoding leave it as it is
PlainText(v) ==
    /\ v.t = "string"
    /\ \A i \in 1..Len(v.s) : v.s[i] \notin {"<", ">", " ", "\n"}

\* C30: for a text without markup, the normalizer returns the text with
\* every recognized entity replaced by its character and everything else,
\* unrecognized entities and stray '&' included, as it was
C30_EntityDecoding ==
    (normPc = "done" /\ PlainText(htmlContent))
        => extracted.value = Str(Decoded(htmlContent.s, 1))


(***************************************************************************)
(* Further properties of the batcher (checked under SpecBatch)             *)
(***************************************************************************)
\* C31: no batch is empty: every batch handed to sendEmbedBatch and every
\* batch returned by splitEmbedsIntoBatches holds at least one unit,
\* whatever the serialized sizes of the units.
C31_NoEmptyBatch ==
    \A i \in 1..Len(posted) + Len(batches) :
        Len((posted \o batches)[i]) >= 1
\* C35: the batcher of index.js, which sends each batch as it closes it,
\* and splitEmbedsIntoBatches followed by the send loop of part_001 are
\* equivalent: on every input the batches handed to sendEmbedBatch are, in
\* order, the batches the pure batcher returns; when every send succeeds
\* all of them are posted, and when the send of batch k fails exactly the
\* batches 1..k-1 have been posted and no later batch is attempted.
C35_BatchersEquivalent ==
    LET expected == splitEmbedsIntoBatches(embeds)
        k == Len(posted)
    IN  /\ k <= Len(expected)
        /\ posted = SubSeq(expected, 1, k)
        /\ batchPc = "done" => messages = expected
        /\ batchPc = "failed" => (k >= 1 /\ messages = SubSeq(expected, 1, k - 1))
        /\ batchPc \notin {"done", "failed"} => messages = posted

\* the index.js batcher failed on its third batch or later
C35_Witness ==
    /\ impl = "index.js"
    /\ batchPc = "failed"
    /\ Len(messages) >= 2
    /\ Len(posted) < Len(splitEmbedsIntoBatches(embeds))

\* the request of fetchGuildData ended in a failure
GuildFailed == \E i \in CallsOf("guild") : i <= Len(returns) /\ returns[i] # "ok"

C37_SendIffReplyFailed ==
    /\ Len(mails) <= 2
    /\ mails # <<>> => mails[1].via = "reply"
    /\ Len(mails) = 2 => (mails[2].via = "send" /\ ~mails[1].ok)
    /\ hPc = "send" <=> (Len(mails) = 1 /\ ~mails[1].ok)
    /\ (hPc = "done" /\ mails # <<>> /\ ~mails[1].ok) => Len(mails) = 2

\* a confirmation whose event.reply failed went out through event.send
C37_Witness ==
    /\ hPc = "done"
    /\ replies = <<[kind |-> "confirmation", msg |-> "none"]>>
    /\ mails = <<[via |-> "reply", kind |-> "confirmation", ok |-> FALSE],
                 [via |-> "send", kind |-> "confirmation", ok |-> TRUE]>>

(***************************************************************************)
(* Termination of the handler (checked under SpecEmailFair)                *)
(***************************************************************************)
\* the handler has returned: no request of its own is in flight
Completed == hPc = "done" /\ ~InFlight

\* C32: every invocation terminates: when each call it awaits returns or
\* throws, the handler completes, whatever the destination answers, and no
\* request issues more than MAX_RETRIES + 1 fetches.
C32_HandlerTerminates ==
    /\ [](tries <= MAX_RETRIES + 1)
    /\ <>[]Completed

\* a request used its whole retry budget and the handler completed
C32_Witness ==
    /\ Completed
    /\ tries = MAX_RETRIES + 1
    /\ Len(calls) >= 3
(***************************************************************************)
(* Further properties of the email handler (checked under SpecEmail)       *)
(***************************************************************************)
\* the member found holds one of the required roles, or none is required
Eligible == member \in {"withRole", "withoutRole"} /\ (member = "withRole" \/ ~env.roles)

\* C33: the target is resolved in a fixed order: the CHANNEL_MAP entry of
\* the recipient's local part is used and no member is looked up; with no
\* entry the member lookup decides: an eligible member gets a DM channel, a
\* member without any required role makes the handler fail with nothing
\* delivered and "others" unused, and with no member the "others" channel
\* is used or, when it is not configured, the handler fails.
C33_TargetPrecedence ==
    /\ env.mapped =>
          /\ CallsOf("members") = {}
          /\ targetChannelId \in {"none", "mapped"}
    /\ (~env.mapped /\ targetChannelId # "none") =>
          /\ member # "unset"
          /\ targetChannelId \in {"dm", "others"}
    /\ targetChannelId = "dm" => Eligible
    /\ Eligible =>
          /\ CallsOf("dm") # {}
          /\ targetChannelId \in {"none", "dm"}
    /\ (member = "withoutRole" /\ env.roles) =>
          /\ error = MissingRole
          /\ targetChannelId = "none"
          /\ CallsOf("dm") \cup CallsOf("guild") \cup CallsOf("embeds") \cup CallsOf("file") = {}
    /\ member = "none" =>
          /\ CallsOf("dm") = {}
          /\ IF env.others
             THEN targetChannelId = "others"
             ELSE /\ error = NoTarget
                  /\ targetChannelId = "none"
                  /\ CallsOf("guild") \cup CallsOf("embeds") \cup CallsOf("file") = {}
(***************************************************************************)
(* Further properties of the chunker (checked under SpecChunk)             *)
(***************************************************************************)
\* C34: a text that is not longer than the block limit is emitted as
\* exactly one block: the loop pushes a second block only for a text
\* longer than the limit.
C34_ShortTextOneBlock ==
    /\ (chunkPc = "done" /\ Len(text) > 0 /\ Len(text) <= maxLength) => Len(blocks) = 1
    /\ Len(blocks) > 1 => Len(text) > maxLength
====
